---- MODULE Spec2Model ----
(***************************************************************************)
(* A model of the Modbus client stack of modbus-rs: the RTU frame codec    *)
(* (frame/rtu.rs), the serial transport and its receive loop               *)
(* (transport.rs, transport/rtu.rs) and the client (app/client.rs).        *)
(*                                                                         *)
(* Rust slices and arrays are 0-based; the sequences below are 1-based, so *)
(* the byte at Rust index i is element i + 1.                              *)
(***************************************************************************)
EXTENDS Integers, Sequences, FiniteSets, TLC

(***************************************************************************)
(* Fixed-width integer helpers (u8 / u16 arithmetic of the source).        *)
(***************************************************************************)
RECURSIVE Xor(_, _)
\* a ^ b on unsigned integers
Xor(a, b) ==
    IF a = 0 THEN b
    ELSE IF b = 0 THEN a
    ELSE (((a % 2) + (b % 2)) % 2) + 2 * Xor(a \div 2, b \div 2)

\* `value as u8`
LowByte(v) == v % 256
\* `(value >> 8) as u8` of a u16
HighByte(v) == (v \div 256) % 256
\* u16::from_le_bytes([low, high])
FromLeBytes(low, high) == low + 256 * high
\* u16::from_be_bytes([high, low])
FromBeBytes(high, low) == 256 * high + low

\* s[from .. to) with 0-based bounds, like &s[from..to]
Slice(s, from, to) == SubSeq(s, from + 1, to)

\* n zero bytes, like [0; n]
Zeros(n) == [i \in 1..n |-> 0]

(***************************************************************************)
(* frame.rs: DataUnit<N>, a fixed array plus a write position.             *)
(***************************************************************************)
\* DataUnit::default()
DataUnit_default(N) == [data |-> Zeros(N), position |-> 0]

DataUnit_len(u) == u.position

DataUnit_clear(u) == [u EXCEPT !.position = 0]

DataUnit_as_slice(u) == Slice(u.data, 0, u.position)

\* DataUnit::push: [ok, unit]
DataUnit_push(u, src) ==
    IF u.position >= Len(u.data)
    THEN [ok |-> FALSE, err |-> "NoSpaceLeft", unit |-> u]
    ELSE [ok |-> TRUE, err |-> "",
          unit |-> [data |-> [u.data EXCEPT ![u.position + 1] = src],
                    position |-> u.position + 1]]

DataUnit_put_u8(u, src) == DataUnit_push(u, src)

\* a put_u16_le that writes the high byte first
DataUnit_put_u16_le_high_first(u, src) ==
    LET r1 == DataUnit_push(u, HighByte(src))
    IN IF ~r1.ok THEN r1 ELSE DataUnit_push(r1.unit, LowByte(src))

\* DataUnit::put_u16_le: push(low)?; push(high)
DataUnit_put_u16_le(u, src) ==
    LET r1 == DataUnit_push(u, LowByte(src))
    IN IF ~r1.ok THEN r1 ELSE DataUnit_push(r1.unit, HighByte(src))

\* DataUnit::extend_from_slice
DataUnit_extend_from_slice(u, src) ==
    IF Len(src) > Len(u.data)
    THEN [ok |-> FALSE, err |-> "BufferOverflow", unit |-> u]
    ELSE IF u.position + Len(src) > Len(u.data)
    THEN [ok |-> FALSE, err |-> "NoSpaceLeft", unit |-> u]
    ELSE [ok |-> TRUE, err |-> "",
          unit |-> [data |-> [i \in 1..Len(u.data) |->
                                 IF i > u.position /\ i <= u.position + Len(src)
                                 THEN src[i - u.position] ELSE u.data[i]],
                    position |-> u.position + Len(src)]]

DataUnit_put_slice(u, src) == DataUnit_extend_from_slice(u, src)

(***************************************************************************)
(* frame/pdu.rs: Pdu(DataUnit<253>)                                        *)
(***************************************************************************)
FRAME_MAX_PDU_SIZE == 253

\* frame::pdu::Pdu::new(function_code)
FramePdu_new(function_code) ==
    DataUnit_push(DataUnit_default(FRAME_MAX_PDU_SIZE), function_code)

(***************************************************************************)
(* frame/rtu.rs: CRC-16, build_frame, parse_frame                          *)
(***************************************************************************)
FRAME_MAX_ADU_SIZE == 256

\* a u16
U16 == 0..65535

RECURSIVE CrcTableEntry(_, _)
\* the inner `while j < 8` loop of generate_crc_table, j rounds left
CrcTableEntry(crc, j) ==
    IF j = 0 \/ crc \notin U16 THEN crc
    ELSE CrcTableEntry(IF crc % 2 # 0 THEN Xor(crc \div 2, 40961) ELSE crc \div 2,
                       j - 1)

\* const MODBUS_16_CRC: [u16; 256] = generate_crc_table()
MODBUS_16_CRC == [i \in 0..255 |-> CrcTableEntry(i, 8)]

RECURSIVE FrameCrcFold(_, _, _, _)
\* the `for byte in data` loop of calc_crc over data[lo..hi], in order; the
\* range is halved so that the evaluation does not nest once per byte
FrameCrcFold(crc, data, lo, hi) ==
    IF lo > hi \/ crc \notin U16 THEN crc
    ELSE IF lo = hi
    THEN Xor(crc \div 256, MODBUS_16_CRC[Xor(crc, data[lo]) % 256])
    ELSE FrameCrcFold(FrameCrcFold(crc, data, lo, (lo + hi) \div 2),
                      data, (lo + hi) \div 2 + 1, hi)

\* a table-driven CRC that starts from 0 instead of 0xFFFF
Frame_calc_crc_from_zero(data) == FrameCrcFold(0, data, 1, Len(data))

\* frame::rtu::calc_crc (table driven)
Frame_calc_crc(data) == FrameCrcFold(65535, data, 1, Len(data))

\* frame::rtu::checksum
Frame_checksum(data, crc) ==
    IF crc # Frame_calc_crc(data) THEN "CrcValidationFailure" ELSE "Ok"

\* a length check that lets frames of three bytes through
check_frame_length_from_3(frame) ==
    IF Len(frame) < 3 \/ Len(frame) > 256
    THEN "InvalidFrameLength" ELSE "Ok"

check_frame_length(frame) ==
    IF Len(frame) < 4 \/ Len(frame) > FRAME_MAX_ADU_SIZE
    THEN "InvalidFrameLength" ELSE "Ok"

check_frame_address(frame, address) ==
    IF address = 0 \/ frame[1] = address THEN "Ok" ELSE "InvalidSlaveAddress"

check_frame_crc(frame) ==
    LET n == Len(frame)
    IN Frame_checksum(Slice(frame, 0, n - 2), FromLeBytes(frame[n - 1], frame[n]))

\* RtuFrameHandler::build_frame: [ok, len, adu]
build_frame(adu0, slave_address, pdu) ==
    LET a0 == DataUnit_clear(adu0)
        r1 == DataUnit_put_u8(a0, slave_address)
        r2 == IF r1.ok THEN DataUnit_put_slice(r1.unit, DataUnit_as_slice(pdu)) ELSE r1
        crc == Frame_calc_crc(DataUnit_as_slice(r2.unit))
        r3 == IF r2.ok THEN DataUnit_put_u16_le(r2.unit, crc) ELSE r2
    IN [ok |-> r3.ok, err |-> r3.err, len |-> DataUnit_len(r3.unit), adu |-> r3.unit]

\* RtuFrameHandler::parse_frame: [ok, err, detail, pdu]; detail is the
\* address carried by InvalidSlaveAddress(frame[0])
parse_frame(frame, expected_address) ==
    LET none == DataUnit_default(FRAME_MAX_PDU_SIZE)
    IN IF check_frame_length(frame) # "Ok"
       THEN [ok |-> FALSE, err |-> check_frame_length(frame), detail |-> <<>>, pdu |-> none]
       ELSE IF check_frame_address(frame, expected_address) # "Ok"
       THEN [ok |-> FALSE, err |-> "InvalidSlaveAddress", detail |-> <<frame[1]>>, pdu |-> none]
       ELSE IF check_frame_crc(frame) # "Ok"
       THEN [ok |-> FALSE, err |-> "CrcValidationFailure", detail |-> <<>>, pdu |-> none]
       ELSE LET p1 == FramePdu_new(frame[2])
                p2 == IF p1.ok
                      THEN DataUnit_put_slice(p1.unit, Slice(frame, 2, Len(frame) - 2))
                      ELSE p1
            IN [ok |-> p2.ok, err |-> p2.err, detail |-> <<>>, pdu |-> p2.unit]

(***************************************************************************)
(* common.rs: Pdu, a heapless Vec<u8, 253>, modelled as a byte sequence.   *)
(***************************************************************************)
MIN_PDU_SIZE == 1
MAX_PDU_SIZE == 253

\* impl TryFrom<&[u8]> for Pdu
Pdu_try_from(value) ==
    IF Len(value) < MIN_PDU_SIZE
    THEN [ok |-> FALSE, err |-> "BufferUnderflow", pdu |-> <<>>]
    ELSE IF Len(value) > MAX_PDU_SIZE
    THEN [ok |-> FALSE, err |-> "BufferOverflow", pdu |-> <<>>]
    ELSE [ok |-> TRUE, err |-> "", pdu |-> value]

\* a push that never finds the vector full
Pdu_push_unbounded(pdu, buf) == [ok |-> TRUE, err |-> "", pdu |-> Append(pdu, buf)]

\* Pdu::push
Pdu_push(pdu, buf) ==
    IF Len(pdu) >= MAX_PDU_SIZE
    THEN [ok |-> FALSE, err |-> "NoSpaceLeft", pdu |-> pdu]
    ELSE [ok |-> TRUE, err |-> "", pdu |-> Append(pdu, buf)]

Pdu_put_u8(pdu, value) == Pdu_push(pdu, value)

\* a put_u16 that writes the low byte first
Pdu_put_u16_low_first(pdu, value) ==
    LET r1 == Pdu_push(pdu, LowByte(value))
    IN IF ~r1.ok THEN r1 ELSE Pdu_push(r1.pdu, HighByte(value))

\* Pdu::put_u16: push(high)?; push(low)
Pdu_put_u16(pdu, value) ==
    LET r1 == Pdu_push(pdu, HighByte(value))
    IN IF ~r1.ok THEN r1 ELSE Pdu_push(r1.pdu, LowByte(value))

\* Pdu::extend_from_slice
Pdu_extend_from_slice(pdu, buf) ==
    IF Len(buf) > MAX_PDU_SIZE
    THEN [ok |-> FALSE, err |-> "BufferOverflow", pdu |-> pdu]
    ELSE IF Len(pdu) + Len(buf) > MAX_PDU_SIZE
    THEN [ok |-> FALSE, err |-> "NoSpaceLeft", pdu |-> pdu]
    ELSE [ok |-> TRUE, err |-> "", pdu |-> pdu \o buf]

\* Pdu::new(function_code)
Pdu_new(function_code) == Pdu_put_u8(<<>>, function_code)

\* Pdu::function_code: self.data[0]
Pdu_function_code(pdu) == pdu[1]

\* Pdu::data: &self.data[1..]
Pdu_data(pdu) == Slice(pdu, 1, Len(pdu))

\* Pdu::get(index): self.data.get(index + 1)
Pdu_get(pdu, index) ==
    IF index + 1 < Len(pdu) THEN [some |-> TRUE, val |-> pdu[index + 2]]
    ELSE [some |-> FALSE, val |-> 0]

Pdu_get_u8(pdu, index) == Pdu_get(pdu, index)

\* Pdu::get_u16(h_idx)
Pdu_get_u16(pdu, h_idx) ==
    LET high == Pdu_get(pdu, h_idx)
        low == Pdu_get(pdu, h_idx + 1)
    IN IF high.some /\ low.some
       THEN [some |-> TRUE, val |-> FromBeBytes(high.val, low.val)]
       ELSE [some |-> FALSE, val |-> 0]

(***************************************************************************)
(* transport.rs: Adu, the transport's scratch buffer [u8; 256] + position. *)
(***************************************************************************)
MAX_ADU_SIZE == 256

\* Adu::new
Adu_new == [data |-> Zeros(MAX_ADU_SIZE), position |-> 0]

\* Adu::push
Adu_push(adu, buf) ==
    IF adu.position >= MAX_ADU_SIZE
    THEN [ok |-> FALSE, err |-> "NoSpaceLeft", adu |-> adu]
    ELSE [ok |-> TRUE, err |-> "",
          adu |-> [data |-> [adu.data EXCEPT ![adu.position + 1] = buf],
                   position |-> adu.position + 1]]

Adu_put_u8(adu, value) == Adu_push(adu, value)

\* a put_u16_le that writes the high byte first
Adu_put_u16_le_high_first(adu, value) ==
    LET r1 == Adu_push(adu, HighByte(value))
    IN IF ~r1.ok THEN r1 ELSE Adu_push(r1.adu, LowByte(value))

\* Adu::put_u16_le: push(low)?; push(high)
Adu_put_u16_le(adu, value) ==
    LET r1 == Adu_push(adu, LowByte(value))
    IN IF ~r1.ok THEN r1 ELSE Adu_push(r1.adu, HighByte(value))

\* Adu::extend_from_slice
Adu_extend_from_slice(adu, src) ==
    IF Len(src) > MAX_ADU_SIZE
    THEN [ok |-> FALSE, err |-> "BufferOverflow", adu |-> adu]
    ELSE IF Len(src) + adu.position > MAX_ADU_SIZE
    THEN [ok |-> FALSE, err |-> "NoSpaceLeft", adu |-> adu]
    ELSE [ok |-> TRUE, err |-> "",
          adu |-> [data |-> [i \in 1..MAX_ADU_SIZE |->
                                IF i > adu.position /\ i <= adu.position + Len(src)
                                THEN src[i - adu.position] ELSE adu.data[i]],
                   position |-> adu.position + Len(src)]]

\* Adu::get(index)
Adu_get(adu, index) ==
    IF index >= adu.position \/ index >= MAX_ADU_SIZE
    THEN [some |-> FALSE, val |-> 0]
    ELSE [some |-> TRUE, val |-> adu.data[index + 1]]

\* Adu::get_u16_le(l_idx)
Adu_get_u16_le(adu, l_idx) ==
    LET low == Adu_get(adu, l_idx)
        high == Adu_get(adu, l_idx + 1)
    IN IF low.some /\ high.some
       THEN [some |-> TRUE, val |-> FromLeBytes(low.val, high.val)]
       ELSE [some |-> FALSE, val |-> 0]

Adu_clear(adu) == [adu EXCEPT !.position = 0]

\* Adu::as_write_slice: &mut self.data[self.position..], here its length
Adu_write_room(adu) == MAX_ADU_SIZE - adu.position

\* what port.read(buffer.as_write_slice()) does to the storage when it
\* completes with `bytes`: they land at data[position..], position is untouched
Adu_read_into(adu, bytes) ==
    [adu EXCEPT !.data = [i \in 1..MAX_ADU_SIZE |->
                            IF i > adu.position /\ i <= adu.position + Len(bytes)
                            THEN bytes[i - adu.position] ELSE adu.data[i]]]

Adu_as_slice(adu) == Slice(adu.data, 0, adu.position)

Adu_is_empty(adu) == adu.position = 0

Adu_len(adu) == adu.position

Adu_set_position(adu, pos) == [adu EXCEPT !.position = pos]

\* Adu::pdu: Pdu::try_from(&self.data[1..self.data.len() - 2]); self.data is the
\* whole array, so data.len() is MAX_ADU_SIZE whatever the position is
Adu_pdu(adu) == Pdu_try_from(Slice(adu.data, 1, Len(adu.data) - 2))

(***************************************************************************)
(* transport/rtu.rs: RtuContext, CRC, SerialTransport                      *)
(*                                                                         *)
(* Instants and Durations are counted in ticks of 50 microseconds, the     *)
(* finest unit in which the 86400 s "far future" sleep of recv still fits  *)
(* a 32-bit integer.  750 us and 1750 us are 15 and 35 ticks.              *)
(***************************************************************************)
TicksPerSecond == 1000000 \div 50

RTU_BITS_PER_CHAR == 11

\* Duration::from_secs(86400)
FarFuture == 86400 * TicksPerSecond

\* impl Default for RtuContext (latest_time: Instant::now() at construction)
RtuContext_default(t) ==
    [slave_addr |-> 0, latest_time |-> t, t1_5 |-> FarFuture, t3_5 |-> FarFuture]

\* a set_interval without the fixed intervals above 19200 baud
set_interval_per_char(c, baud_rate) ==
    [c EXCEPT !.t1_5 = (RTU_BITS_PER_CHAR * 15 * TicksPerSecond) \div (10 * baud_rate),
              !.t3_5 = (RTU_BITS_PER_CHAR * 35 * TicksPerSecond) \div (10 * baud_rate)]

\* RtuContext::set_interval: sec_per_char = 11 / baud; t1_5 = 1.5 and
\* t3_5 = 3.5 characters up to 19200 baud, 750 us and 1750 us above
set_interval(c, baud_rate) ==
    IF baud_rate <= 19200
    THEN [c EXCEPT !.t1_5 = (RTU_BITS_PER_CHAR * 15 * TicksPerSecond) \div (10 * baud_rate),
                   !.t3_5 = (RTU_BITS_PER_CHAR * 35 * TicksPerSecond) \div (10 * baud_rate)]
    ELSE [c EXCEPT !.t1_5 = (750 * TicksPerSecond) \div 1000000,
                   !.t3_5 = (1750 * TicksPerSecond) \div 1000000]

RECURSIVE CrcShift(_, _)
\* the inner `for _ in 0..8` loop of calc_crc, j rounds left
CrcShift(crc, j) ==
    IF j = 0 \/ crc \notin U16 THEN crc
    ELSE CrcShift(IF crc % 2 # 0 THEN Xor(crc \div 2, 40961) ELSE crc \div 2, j - 1)

RECURSIVE CrcFold(_, _, _, _)
\* the `for byte in data` loop of calc_crc over data[lo..hi], in order; the
\* range is halved so that the evaluation does not nest once per byte
CrcFold(crc, data, lo, hi) ==
    IF lo > hi \/ crc \notin U16 THEN crc
    ELSE IF lo = hi
    THEN CrcShift(Xor(crc, data[lo]), 8)
    ELSE CrcFold(CrcFold(crc, data, lo, (lo + hi) \div 2),
                 data, (lo + hi) \div 2 + 1, hi)

\* transport::rtu::calc_crc (bit by bit)
calc_crc(data) == CrcFold(65535, data, 1, Len(data))

\* transport::rtu::checksum
checksum(data, crc) == calc_crc(data) = crc

(***************************************************************************)
(* State                                                                   *)
(***************************************************************************)
VARIABLES
    ctx,         \* SerialTransport.ctx: RtuContext
    buffer,      \* SerialTransport.buffer: Adu
    t3_5_timer,  \* deadline of the pinned sleep of the running recv call
    rpc,         \* "idle", or "select" while a recv call waits in its loop
    rres,        \* what recv returned and by which select! branch, kept until
                 \* the caller's next call
    now,         \* the monotonic clock (Instant::now())
    rx,          \* what port.read will still deliver, one chunk per read
    tx,          \* bytes of the last port.write_all
    lastRx,      \* when bytes were last received in this recv call, -1 if never
    heard,       \* every byte port.read delivered in this recv call
    adu,         \* frame codec: the Adu handed to build_frame
    fpdu,        \* frame codec: the Pdu handed to build_frame
    faddr,       \* frame codec: the slave address handed to build_frame
    fres,        \* frame codec: results of build_frame / parse_frame
    cpc,         \* client: "idle", "sending" or "receiving"
    creq,        \* client: the operation in progress
    clog,        \* client: the calls the transport has seen
    cres,        \* client: what the last operation returned
    nops         \* client: operations started

tvars == <<ctx, buffer, t3_5_timer, rpc, rres, now, rx, tx, lastRx, heard>>
fvars == <<adu, fpdu, faddr, fres>>
cvars == <<cpc, creq, clog, cres, nops>>
vars == <<tvars, fvars, cvars>>

(***************************************************************************)
(* Bounds and inputs                                                       *)
(***************************************************************************)
\* a run is followed for MaxSpan * t3_5 of waiting in recv
MaxSpan == 1

\* baud rates given to SerialTransport::builder
Bauds == {9600}

\* arguments of set_slave_addr
SlaveAddrs == {0, 17, 248}

\* a frame as a peer puts it on the line: address, PDU, CRC low byte first
PeerFrame(addr, pdu) ==
    LET body == <<addr>> \o pdu
    IN body \o <<LowByte(calc_crc(body)), HighByte(calc_crc(body))>>

\* the frame with its last byte damaged
Damaged(frame) ==
    SubSeq(frame, 1, Len(frame) - 1) \o <<(frame[Len(frame)] + 1) % 256>>

\* what the line delivers during a run, as the chunks successive reads return:
\* two adjacent frames of slave 17 (an exception response, then a response to
\* function 3), each in one read; a frame of slave 17 in two reads; a damaged
\* frame of slave 17; a frame with address 0
Streams ==
    { << PeerFrame(17, <<131, 2>>), PeerFrame(17, <<3, 2, 18, 52>>) >>,
      << <<17, 3>>, SubSeq(PeerFrame(17, <<3, 2, 18, 52>>), 3, 7) >>,
      << Damaged(PeerFrame(17, <<6, 0, 1, 0, 3>>)) >>,
      << PeerFrame(0, <<3, 2, 18, 52>>) >> }

\* the bytes the next read can return: none yet, or the next chunk
NextChunks(line) == IF line = <<>> THEN {<<>>} ELSE {<<>>, Head(line)}

\* PDUs handed to send
Requests == { <<3, 0, 107, 0, 3>> }

NoResult == [kind |-> "none", err |-> "", pdu |-> <<>>]
Ok(pdu) == [kind |-> "Ok", err |-> "", pdu |-> pdu]
Err(e) == [kind |-> "Err", err |-> e, pdu |-> <<>>]

\* a return of recv: the select! branch that returned, and the result
Returned(by, res) == [by |-> by, res |-> res]
NoReturn == Returned("none", NoResult)

\* how far the clock moves in one step: t1_5 (twice: more than t1_5), t3_5
Delays == {ctx.t1_5, ctx.t3_5}

(***************************************************************************)
(* transport/rtu.rs: SerialTransport                                       *)
(***************************************************************************)
\* the state SerialTransportBuilder::new(path, baud).build() leaves
TInit ==
    /\ \E b \in Bauds : ctx = set_interval(RtuContext_default(0), b)
    /\ buffer = Adu_new
    /\ t3_5_timer = 0
    /\ rpc = "idle"
    /\ rres = NoReturn
    /\ now = 0
    /\ rx \in Streams
    /\ tx = <<>>
    /\ lastRx = -1
    /\ heard = <<>>

\* SerialTransport::set_slave_addr
set_slave_addr(slave_addr) ==
    /\ rpc = "idle"
    /\ ctx' = IF slave_addr >= 1 /\ slave_addr <= 247
              THEN [ctx EXCEPT !.slave_addr = slave_addr]
              ELSE ctx
    /\ rres' = NoReturn
    /\ UNCHANGED <<buffer, t3_5_timer, rpc, now, rx, tx, lastRx, heard>>

\* the frame SerialTransport::send builds in the shared buffer
SendFrame(adu0, slave_addr, pdu) ==
    LET r1 == Adu_put_u8(Adu_clear(adu0), slave_addr)
        r2 == IF r1.ok THEN Adu_extend_from_slice(r1.adu, pdu) ELSE r1
        crc == calc_crc(Adu_as_slice(r2.adu))
    IN IF r2.ok THEN Adu_put_u16_le(r2.adu, crc) ELSE r2

\* SerialTransport::send
send(pdu) ==
    /\ rpc = "idle"
    /\ LET r == SendFrame(buffer, ctx.slave_addr, pdu)
       IN /\ buffer' = r.adu
          /\ tx' = IF r.ok THEN Adu_as_slice(r.adu) ELSE tx
    /\ rres' = NoReturn
    /\ UNCHANGED <<ctx, t3_5_timer, rpc, now, rx, lastRx, heard>>

\* recv up to its first select!: clear the buffer, pin the far-future sleep
RecvStart ==
    /\ rpc = "idle"
    /\ buffer' = Adu_clear(buffer)
    /\ t3_5_timer' = now + FarFuture
    /\ rpc' = "select"
    /\ rres' = NoReturn
    /\ lastRx' = -1
    /\ heard' = <<>>
    /\ UNCHANGED <<ctx, now, rx, tx>>

\* recv, lines 107-112: bytes came more than t1_5 after the previous read
FrameLate(adu0, c, current_time) ==
    ~Adu_is_empty(adu0) /\ current_time - c.latest_time > c.t1_5

\* recv, line 116: the buffer starts with the configured slave address
AddressMatches(adu0, c) ==
    Adu_get(adu0, 0) = [some |-> TRUE, val |-> c.slave_addr]

\* recv, lines 118-121 and 139-142: more than two bytes, the last two being
\* the CRC of the others
CrcMatches(adu0) ==
    LET len == Adu_len(adu0)
    IN len > 2 /\ checksum(Slice(Adu_as_slice(adu0), 0, len - 2),
                           Adu_get_u16_le(adu0, len - 2).val)

\* recv, lines 116-121: the read branch returns the buffer as a frame
ParseOnRead_never(adu0, c) == FALSE

ParseOnRead(adu0, c) == AddressMatches(adu0, c) /\ CrcMatches(adu0)

\* `return Ok(self.buffer.pdu()?)`
ReturnPdu(adu0) ==
    IF Adu_pdu(adu0).ok THEN Ok(Adu_pdu(adu0).pdu) ELSE Err(Adu_pdu(adu0).err)

\* recv, select! branch `res = self.port.read(..)` with res = Ok(n)
RecvRead(bytes) ==
    /\ rpc = "select"
    /\ Len(bytes) <= Adu_write_room(buffer)
    /\ LET n == Len(bytes)
           stored == Adu_read_into(buffer, bytes)
           b1 == Adu_set_position(stored, Adu_len(stored) + n)
       IN IF FrameLate(stored, ctx, now)
          THEN /\ rres' = Returned("read", Err("FrameIncomplete"))
               /\ rpc' = "idle"
               /\ buffer' = stored
               /\ UNCHANGED <<ctx, t3_5_timer>>
          ELSE IF ParseOnRead(b1, ctx)
          THEN /\ rres' = Returned("read", ReturnPdu(b1))
               /\ rpc' = "idle"
               /\ buffer' = b1
               /\ UNCHANGED <<ctx, t3_5_timer>>
          ELSE /\ buffer' = IF AddressMatches(b1, ctx) THEN b1 ELSE Adu_clear(b1)
               /\ ctx' = [ctx EXCEPT !.latest_time = now]
               /\ t3_5_timer' = now + ctx.t3_5
               /\ UNCHANGED <<rres, rpc>>
    /\ rx' = IF bytes = <<>> THEN rx ELSE Tail(rx)
    /\ heard' = heard \o bytes
    /\ lastRx' = IF bytes = <<>> THEN lastRx ELSE now
    /\ UNCHANGED <<now, tx>>

\* recv, select! branch `res = self.port.read(..)` with res = Err(err)
RecvReadErr(kind) ==
    /\ rpc = "select"
    /\ IF kind = "TimedOut" /\ Adu_is_empty(buffer)
       THEN /\ ctx' = [ctx EXCEPT !.latest_time = now]
            /\ t3_5_timer' = now + ctx.t3_5
            /\ UNCHANGED <<rres, rpc>>
       ELSE /\ rres' = Returned("read", Err("Io"))
            /\ rpc' = "idle"
            /\ UNCHANGED <<ctx, t3_5_timer>>
    /\ UNCHANGED <<buffer, now, rx, tx, lastRx, heard>>

\* recv, select! branch `_ = &mut t3_5_timer`
RecvTimer ==
    /\ rpc = "select"
    /\ now >= t3_5_timer
    /\ rres' = Returned("timer",
                        IF Adu_len(buffer) > 2
                        THEN IF CrcMatches(buffer)
                             THEN ReturnPdu(buffer)
                             ELSE Err("CrcValidationFailure")
                        ELSE Err("Timeout"))
    /\ rpc' = "idle"
    /\ UNCHANGED <<ctx, buffer, t3_5_timer, now, rx, tx, lastRx, heard>>

\* time passes while recv waits in select!; recv reads no time of before the
\* call (latest_time is written before it is read), so the time between calls
\* is left out
Tick(d) ==
    /\ rpc = "select"
    /\ now + d <= MaxSpan * ctx.t3_5
    /\ now' = now + d
    /\ UNCHANGED <<ctx, buffer, t3_5_timer, rpc, rres, rx, tx, lastRx, heard>>

\* the frame codec and the client are not run by the transport's specification
FIdle ==
    /\ adu = <<>>
    /\ fpdu = <<>>
    /\ faddr = 0
    /\ fres = [stage |-> "idle"]

\* no transport is built by the specifications of the frame codec and of the
\* client
TIdle ==
    /\ ctx = RtuContext_default(0)
    /\ buffer = <<>>
    /\ t3_5_timer = 0
    /\ rpc = "idle"
    /\ rres = NoReturn
    /\ now = 0
    /\ rx = <<>>
    /\ tx = <<>>
    /\ lastRx = -1
    /\ heard = <<>>

CIdle ==
    /\ cpc = "idle"
    /\ creq = <<>>
    /\ clog = <<>>
    /\ cres = <<>>
    /\ nops = 0

Init == TInit /\ FIdle /\ CIdle

Next ==
    \/ \E a \in SlaveAddrs : set_slave_addr(a) /\ UNCHANGED <<fvars, cvars>>
    \/ \E p \in Requests : send(p) /\ UNCHANGED <<fvars, cvars>>
    \/ RecvStart /\ UNCHANGED <<fvars, cvars>>
    \/ \E bytes \in NextChunks(rx) : RecvRead(bytes) /\ UNCHANGED <<fvars, cvars>>
    \/ \E k \in {"TimedOut", "BrokenPipe"} : RecvReadErr(k) /\ UNCHANGED <<fvars, cvars>>
    \/ RecvTimer /\ UNCHANGED <<fvars, cvars>>
    \/ \E d \in Delays : Tick(d) /\ UNCHANGED <<fvars, cvars>>

Spec == Init /\ [][Next]_vars

(***************************************************************************)
(* Properties of SerialTransport::recv                                     *)
(***************************************************************************)
\* C1: the PDU recv returns is the accumulated frame without its address byte
\* and without its two CRC bytes: frame[1 .. len-2], of length len - 3.
C1_PduIsFrameBody ==
    rres.res.kind = "Ok" =>
        /\ rres.res.pdu = Slice(Adu_as_slice(buffer), 1, Adu_len(buffer) - 2)
        /\ Len(rres.res.pdu) = Adu_len(buffer) - 3

\* C6: when bytes arrive while the buffer is non-empty, recv fails with
\* FrameIncomplete if more than t1_5 passed since the previously received
\* bytes, and otherwise appends them; bytes arriving into an empty buffer are
\* never rejected on timing.
C6_InterCharacterTimeout ==
    [][(rpc = "select" /\ heard' # heard) =>
          IF Adu_is_empty(buffer)
          THEN rres'.res # Err("FrameIncomplete")
          ELSE IF now - lastRx > ctx.t1_5
          THEN rres'.res = Err("FrameIncomplete")
          ELSE /\ rres'.res # Err("FrameIncomplete")
               /\ Adu_len(buffer') = Adu_len(buffer) + Len(heard') - Len(heard)]_vars

\* C7: recv yields a frame only once the line has been silent for at least
\* t3_5 since the frame's last byte.
C7_FrameAfterSilence ==
    rres.res.kind = "Ok" => now - lastRx >= ctx.t3_5

\* C7, as the code has it: recv yields a frame in the read that delivers the
\* frame's last byte, with no silence awaited, when the buffer starts with
\* the configured address, holds more than two bytes and ends with their CRC;
\* the t3_5 timer branch never yields a frame.
C7_FrameOnRead ==
    rres.res.kind = "Ok" =>
        /\ rres.by = "read"
        /\ now = lastRx
        /\ AddressMatches(buffer, ctx)
        /\ CrcMatches(buffer)

\* a frame was returned while the next frame was still on the line
C7_Witness ==
    /\ rres.res.kind = "Ok"
    /\ rx # <<>>
    /\ now - lastRx < ctx.t3_5

\* C8: when the t3_5 timer fires with a non-empty buffer that fails the
\* length, address or CRC check, recv returns Timeout, not
\* CrcValidationFailure.
C8_TimerParseFailureIsTimeout ==
    (/\ rres.by = "timer"
     /\ ~Adu_is_empty(buffer)
     /\ ~parse_frame(Adu_as_slice(buffer), ctx.slave_addr).ok)
        => rres.res = Err("Timeout")

\* C9: with the configured address 0 every address is accepted: parse_frame
\* with expected address 0 never fails on the address, and a recv call that
\* heard a CRC-valid frame, whatever its address byte, returns its PDU.
C9_AddressZeroAcceptsAll ==
    /\ parse_frame(heard, 0).err # "InvalidSlaveAddress"
    /\ (/\ rres.by # "none"
        /\ rres.res # Err("Io")
        /\ ctx.slave_addr = 0
        /\ parse_frame(heard, 0).ok)
           => rres.res.kind = "Ok"

\* C11: send(pdu) with configured slave address a writes to the port, in one
\* write, the bytes [a] ++ pdu ++ [crc mod 256, crc div 256], crc being the
\* CRC-16 of [a] ++ pdu; for a = 0x11 and the ReadHoldingRegisters request
\* (start 0x006B, quantity 3) they are 11 03 00 6B 00 03 76 87.
C11_SendWritesFrame ==
    [][tx' # tx =>
          \E p \in Requests :
              LET body == <<ctx.slave_addr>> \o p
              IN /\ tx' = body \o <<calc_crc(body) % 256, calc_crc(body) \div 256>>
                 /\ (ctx.slave_addr = 17 /\ p = <<3, 0, 107, 0, 3>>)
                       => tx' = <<17, 3, 0, 107, 0, 3, 118, 135>>]_vars

\* slave 17 was sent the ReadHoldingRegisters request
C11_Witness ==
    /\ ctx.slave_addr = 17
    /\ tx = <<17, 3, 0, 107, 0, 3, 118, 135>>

(***************************************************************************)
(* frame/rtu.rs: RtuFrameHandler, driven on its own                        *)
(***************************************************************************)
\* slave addresses handed to build_frame
FrameAddrs == {0, 17, 255}

\* function codes of the PDUs handed to build_frame
FrameCodes == {3, 131}

\* n bytes that differ from their neighbours
Pattern(n) == [i \in 1..n |-> (i * 7) % 256]

\* payloads of the PDUs handed to build_frame: none (a PDU of one byte), one
\* byte, four bytes, and as many as a PDU holds (a PDU of 253 bytes)
FramePayloads ==
    {<<>>, <<2>>, <<0, 107, 0, 3>>, Pattern(FRAME_MAX_PDU_SIZE - 1)}

\* Pdu::new(function_code) followed by put_slice(payload)
FramePdu(function_code, payload) ==
    DataUnit_put_slice(FramePdu_new(function_code).unit, payload).unit

\* a Pdu that was filled, cleared and filled again with fewer bytes: bytes of
\* the first filling stay behind its position
FramePdu_refilled ==
    DataUnit_put_u8(DataUnit_clear(FramePdu(3, <<0, 107, 0, 3>>)), 4).unit

FramePdus ==
    {FramePdu(c, p) : c \in FrameCodes, p \in FramePayloads} \cup {FramePdu_refilled}

\* the Adu handed to build_frame: a fresh one, or one that is full
FrameAdus ==
    { DataUnit_default(FRAME_MAX_ADU_SIZE),
      DataUnit_put_slice(DataUnit_default(FRAME_MAX_ADU_SIZE),
                         [i \in 1..FRAME_MAX_ADU_SIZE |-> 255]).unit }

\* byte strings handed to parse_frame as they are: too short, of the least
\* length, of the greatest length, too long, each kind with a right and a wrong
\* CRC, for slave 17 and for slave 18
RawFrames ==
    LET whole == { PeerFrame(17, <<3>>), PeerFrame(18, <<3>>),
                   PeerFrame(17, <<3, 2, 18, 52>>), PeerFrame(18, <<131, 2>>),
                   PeerFrame(17, Pattern(253)), PeerFrame(17, Pattern(254)) }
    IN {<<>>, <<17>>, <<17, 3>>, PeerFrame(17, <<>>), PeerFrame(18, <<>>)}
          \cup whole \cup {Damaged(f) : f \in whole}

NoFrame ==
    [stage |-> "new", build |-> <<>>, frame |-> <<>>, expected |-> 0, parse |-> <<>>]

FInit ==
    /\ adu \in FrameAdus
    /\ fpdu \in FramePdus
    /\ faddr \in FrameAddrs
    /\ fres = NoFrame

\* RtuFrameHandler::build_frame(&mut adu, faddr, &fpdu)
BuildFrame ==
    /\ fres.stage = "new"
    /\ LET r == build_frame(adu, faddr, fpdu)
       IN /\ adu' = r.adu
          /\ fres' = [fres EXCEPT !.stage = "built",
                                  !.build = [ok |-> r.ok, err |-> r.err, len |-> r.len]]
    /\ UNCHANGED <<fpdu, faddr>>

\* RtuFrameHandler::parse_frame(adu.as_slice(), expected_address)
ParseFrame(expected_address) ==
    /\ fres.stage = "built"
    /\ fres' = [fres EXCEPT !.stage = "parsed",
                            !.expected = expected_address,
                            !.parse = parse_frame(DataUnit_as_slice(adu), expected_address)]
    /\ UNCHANGED <<adu, fpdu, faddr>>

\* RtuFrameHandler::parse_frame(frame, faddr) on bytes that build_frame did
\* not make
ParseRaw(frame) ==
    /\ fres.stage = "new"
    /\ fres' = [fres EXCEPT !.stage = "raw",
                            !.frame = frame,
                            !.expected = faddr,
                            !.parse = parse_frame(frame, faddr)]
    /\ UNCHANGED <<adu, fpdu, faddr>>

InitFrame == TIdle /\ FInit /\ CIdle

NextFrame ==
    \/ BuildFrame /\ UNCHANGED <<tvars, cvars>>
    \/ \E f \in RawFrames : ParseRaw(f) /\ UNCHANGED <<tvars, cvars>>
    \/ \E e \in {faddr, 0, (faddr + 1) % 256} : ParseFrame(e) /\ UNCHANGED <<tvars, cvars>>

SpecFrame == InitFrame /\ [][NextFrame]_vars

\* C10: for every slave address a and every PDU p of 1..=253 bytes,
\* build_frame(a, p) succeeds with a frame of len(p) + 3 bytes, and parse_frame
\* of that frame with expected address a, or 0, returns a PDU of the same bytes
\* as p.
C10_BuildParseRoundTrip ==
    /\ fres.stage \in {"built", "parsed"} =>
           /\ fres.build.ok
           /\ fres.build.len = DataUnit_len(fpdu) + 3
           /\ DataUnit_len(adu) = DataUnit_len(fpdu) + 3
    /\ (fres.stage = "parsed" /\ fres.expected \in {faddr, 0}) =>
           /\ fres.parse.ok
           /\ DataUnit_as_slice(fres.parse.pdu) = DataUnit_as_slice(fpdu)

\* a PDU of 253 bytes came back from a frame parsed with expected address 0
C10_Witness ==
    /\ fres.stage = "parsed"
    /\ fres.expected = 0
    /\ faddr # 0
    /\ DataUnit_len(fpdu) = FRAME_MAX_PDU_SIZE
    /\ fres.parse.ok
    /\ DataUnit_as_slice(fres.parse.pdu) = DataUnit_as_slice(fpdu)

\* C12: parse_frame checks length, address, CRC in this order and reports the
\* first failure: InvalidFrameLength iff len < 4 or len > 256; otherwise
\* InvalidSlaveAddress(frame[0]) iff expected # 0 and frame[0] # expected;
\* otherwise CrcValidationFailure iff the CRC of frame[..len-2] differs from
\* the little-endian u16 of the last two bytes; and no input is indexed out of
\* bounds.
C12_ParseFrameChecksInOrder ==
    fres.stage = "raw" =>
        LET f == fres.frame
            n == Len(fres.frame)
            r == fres.parse
        IN IF n < 4 \/ n > 256
           THEN ~r.ok /\ r.err = "InvalidFrameLength"
           ELSE IF fres.expected # 0 /\ f[1] # fres.expected
           THEN ~r.ok /\ r.err = "InvalidSlaveAddress" /\ r.detail = <<f[1]>>
           ELSE IF calc_crc(SubSeq(f, 1, n - 2)) # f[n - 1] + 256 * f[n]
           THEN ~r.ok /\ r.err = "CrcValidationFailure"
           ELSE r.ok

\* a frame with a foreign address and a wrong CRC was reported for its address
C12_Witness ==
    /\ fres.stage = "raw"
    /\ fres.frame = Damaged(PeerFrame(18, <<131, 2>>))
    /\ fres.expected = 17
    /\ fres.parse.err = "InvalidSlaveAddress"
    /\ fres.parse.detail = <<18>>

(***************************************************************************)
(* app/model/request.rs: the typed requests                                *)
(***************************************************************************)
\* Pdu::new(function_code)?; put_u16(first)?; put_u16(second)?
RequestPdu(function_code, first, second) ==
    LET r1 == Pdu_new(function_code)
        r2 == IF r1.ok THEN Pdu_put_u16(r1.pdu, first) ELSE r1
    IN IF r2.ok THEN Pdu_put_u16(r2.pdu, second) ELSE r2

OutOfRange == [ok |-> FALSE, err |-> "OutOfRange", pdu |-> <<>>]

ReadCoilsRequest_new(starting_address, quantity_of_coils) ==
    IF ~(quantity_of_coils \in 1..2000) THEN OutOfRange
    ELSE RequestPdu(1, starting_address, quantity_of_coils)

ReadDiscreteInputsRequest_new(starting_address, quantity_of_inputs) ==
    IF ~(quantity_of_inputs \in 1..2000) THEN OutOfRange
    ELSE RequestPdu(2, starting_address, quantity_of_inputs)

\* a ReadHoldingRegisters request with the quantity range of the coils
ReadHoldingRegistersRequest_new_as_coils(starting_address, quantity_of_registers) ==
    IF ~(quantity_of_registers \in 1..2000) THEN OutOfRange
    ELSE RequestPdu(3, starting_address, quantity_of_registers)

ReadHoldingRegistersRequest_new(starting_address, quantity_of_registers) ==
    IF ~(quantity_of_registers \in 1..125) THEN OutOfRange
    ELSE RequestPdu(3, starting_address, quantity_of_registers)

ReadInputRegistersRequest_new(starting_address, quantity_of_input_registers) ==
    IF ~(quantity_of_input_registers \in 1..125) THEN OutOfRange
    ELSE RequestPdu(4, starting_address, quantity_of_input_registers)

WriteSingleCoilRequest_new(output_address, output_value) ==
    RequestPdu(5, output_address, IF output_value THEN 65280 ELSE 0)

WriteSingleRegisterRequest_new(register_address, register_value) ==
    RequestPdu(6, register_address, register_value)

UserDefinedRequest_new(function_code, data) ==
    LET r1 == Pdu_new(function_code)
    IN IF r1.ok THEN Pdu_extend_from_slice(r1.pdu, data) ELSE r1

(***************************************************************************)
(* app/client.rs: Client<T: Transport>, over a transport that answers as   *)
(* it likes                                                                *)
(***************************************************************************)
\* operations per run
MaxOps == 2

\* the calls made on the client: every operation, with arguments its request
\* accepts and, where it rejects any, arguments it rejects
Calls ==
    { <<"read_coils", 19, 37>>, <<"read_coils", 0, 2001>>,
      <<"read_discrete_inputs", 196, 22>>, <<"read_discrete_inputs", 0, 0>>,
      <<"read_holding_registers", 107, 3>>, <<"read_holding_registers", 0, 126>>,
      <<"read_input_registers", 8, 1>>, <<"read_input_registers", 8, 0>>,
      <<"write_single_coil", 172, TRUE>>,
      <<"write_single_register", 1, 3>>,
      <<"user_defined", 65, <<1, 2>>>>,
      <<"user_defined", 65, Zeros(MAX_PDU_SIZE)>> }

\* app/model/code.rs: the PublicFunctionCode of a typed operation
PublicFunctionCode(op) ==
    CASE op = "read_coils" -> 1
      [] op = "read_discrete_inputs" -> 2
      [] op = "read_holding_registers" -> 3
      [] op = "read_input_registers" -> 4
      [] op = "write_single_coil" -> 5
      [] op = "write_single_register" -> 6

\* the request an operation builds from its arguments
Request_new(call) ==
    CASE call[1] = "read_coils" -> ReadCoilsRequest_new(call[2], call[3])
      [] call[1] = "read_discrete_inputs" -> ReadDiscreteInputsRequest_new(call[2], call[3])
      [] call[1] = "read_holding_registers" -> ReadHoldingRegistersRequest_new(call[2], call[3])
      [] call[1] = "read_input_registers" -> ReadInputRegistersRequest_new(call[2], call[3])
      [] call[1] = "write_single_coil" -> WriteSingleCoilRequest_new(call[2], call[3])
      [] call[1] = "write_single_register" -> WriteSingleRegisterRequest_new(call[2], call[3])
      [] call[1] = "user_defined" -> UserDefinedRequest_new(call[2], call[3])

\* what the transport's send can return
SendResults == {Ok(<<>>), Err("Io")}

\* what the transport's recv can return to a request with this function
\* code: a PDU with the same code, one with another code, one with the code
\* and the exception bit, one with another code and the exception bit, an
\* error
RecvResults(function_code) ==
    LET other == IF function_code = 4 THEN 3 ELSE 4
    IN { Ok(<<function_code, 2, 18, 52>>),
         Ok(<<other, 2, 18, 52>>),
         Ok(<<function_code + 128, 2>>),
         Ok(<<other + 128, 2>>),
         Err("Timeout") }

\* the `?` operator: an Err returns from the operation at once
Propagates_never(r) == FALSE

Propagates(r) == r.kind = "Err"

\* Result of an operation: a typed response wrapping a PDU, or an error
TypedResponse(op, pdu) == [kind |-> "Ok", err |-> "", op |-> op, pdu |-> pdu, code |-> <<>>]
Failure(e, code) == [kind |-> "Err", err |-> e, op |-> "", pdu |-> <<>>, code |-> code]
NoOperation == [kind |-> "none", err |-> "", op |-> "", pdu |-> <<>>, code |-> <<>>]

\* an entry of the log of what the transport sees: "send" and "recv" when
\* they are called, "send_Ok", "send_Err", "recv_Ok", "recv_Err" when they
\* return, each with the number of the operation that made the call
Seen(what, op) == [what |-> what, op |-> op]

NoRequest == [op |-> "", function_code |-> 0, request |-> <<>>, response |-> NoResult]

CInit ==
    /\ cpc = "idle"
    /\ creq = NoRequest
    /\ clog = <<>>
    /\ cres = NoOperation
    /\ nops = 0

\* an operation up to its first await: `Request::new(..)?` and the call of
\* transport.send
ClientCall(call) ==
    /\ cpc = "idle"
    /\ nops < MaxOps
    /\ nops' = nops + 1
    /\ LET r == Request_new(call)
           built == IF r.ok THEN Ok(r.pdu) ELSE Err(r.err)
       IN IF Propagates(built)
          THEN /\ cres' = Failure(built.err, <<>>)
               /\ creq' = [NoRequest EXCEPT !.op = call[1]]
               /\ UNCHANGED <<cpc, clog>>
          ELSE /\ cres' = NoOperation
               /\ creq' = [op |-> call[1],
                           function_code |-> IF call[1] = "user_defined" THEN call[2]
                                             ELSE PublicFunctionCode(call[1]),
                           request |-> built.pdu,
                           response |-> NoResult]
               /\ cpc' = "sending"
               /\ clog' = Append(clog, Seen("send", nops + 1))

\* `transport.send(..).await?` returns, and transport.recv is called
ClientSent(r) ==
    /\ cpc = "sending"
    /\ IF Propagates(r)
       THEN /\ cres' = Failure(r.err, <<>>)
            /\ cpc' = "idle"
            /\ clog' = Append(clog, Seen("send_" \o r.kind, nops))
       ELSE /\ cpc' = "receiving"
            /\ clog' = clog \o <<Seen("send_" \o r.kind, nops), Seen("recv", nops)>>
            /\ UNCHANGED cres
    /\ UNCHANGED <<creq, nops>>

\* `transport.recv().await?` returns, and the operation ends
ClientReceived(r) ==
    /\ cpc = "receiving"
    /\ cpc' = "idle"
    /\ clog' = Append(clog, Seen("recv_" \o r.kind, nops))
    /\ creq' = [creq EXCEPT !.response = r]
    /\ cres' = IF Propagates(r)
               THEN Failure(r.err, <<>>)
               ELSE IF creq.op = "user_defined"
                       /\ creq.function_code # Pdu_function_code(r.pdu)
               THEN Failure("UnexpectedCode",
                            <<creq.function_code, Pdu_function_code(r.pdu)>>)
               ELSE TypedResponse(creq.op, r.pdu)
    /\ UNCHANGED nops

InitClient == TIdle /\ FIdle /\ CInit

NextClient ==
    \/ \E call \in Calls : ClientCall(call) /\ UNCHANGED <<tvars, fvars>>
    \/ \E r \in SendResults : ClientSent(r) /\ UNCHANGED <<tvars, fvars>>
    \/ \E r \in RecvResults(creq.function_code) : ClientReceived(r) /\ UNCHANGED <<tvars, fvars>>

SpecClient == InitClient /\ [][NextClient]_vars

\* C2: the transport sees strictly alternating calls: an operation makes at
\* most one send followed by at most one recv, recv is called only after that
\* operation's send succeeded, an operation whose request is rejected makes
\* no transport call, and a send never happens before the previous
\* operation's calls have returned.
C2_CallsAlternate ==
    /\ \A i \in 1..Len(clog) :
          /\ clog[i].what = "send" =>
                 \/ i = 1
                 \/ /\ clog[i - 1].what \in {"send_Err", "recv_Ok", "recv_Err"}
                    /\ clog[i - 1].op < clog[i].op
          /\ clog[i].what = "recv" =>
                 /\ i > 1
                 /\ clog[i - 1] = Seen("send_Ok", clog[i].op)
          /\ clog[i].what \in {"send_Ok", "send_Err"} =>
                 /\ i > 1
                 /\ clog[i - 1] = Seen("send", clog[i].op)
          /\ clog[i].what \in {"recv_Ok", "recv_Err"} =>
                 /\ i > 1
                 /\ clog[i - 1] = Seen("recv", clog[i].op)
    /\ \A i, j \in 1..Len(clog) :
          (i < j /\ clog[i].what = clog[j].what) => clog[i].op < clog[j].op
    /\ (nops > 0 /\ creq.request = <<>>) =>
          \A i \in 1..Len(clog) : clog[i].op # nops
    /\ cpc = "idle" => (clog = <<>> \/ clog[Len(clog)].what \in {"send_Err", "recv_Ok", "recv_Err"})

\* an operation sent and received, the next one was rejected, or sent
C2_Witness ==
    /\ \E i \in 1..Len(clog) : clog[i] = Seen("recv_Ok", 1)
    /\ nops = 2
    /\ \/ creq.request = <<>>
       \/ clog[Len(clog)] = Seen("send", 2)

\* C3: when the PDU a typed operation receives has a function code that,
\* the exception bit 0x80 cleared, differs from the code of the request, the
\* operation fails with UnexpectedCode and returns no typed response.
C3_MismatchIsUnexpectedCode ==
    (/\ cpc = "idle"
     /\ creq.op \notin {"", "user_defined"}
     /\ creq.response.kind = "Ok"
     /\ Pdu_function_code(creq.response.pdu) % 128 # creq.function_code)
        => cres.kind = "Err" /\ cres.err = "UnexpectedCode"

\* C4: when the PDU received has the function code of the request with the
\* exception bit set, the operation surfaces an ExceptionResponse of that
\* function and of the exception code that follows, not a typed response.
C4_ExceptionIsSurfaced ==
    (/\ cpc = "idle"
     /\ creq.op # ""
     /\ creq.response.kind = "Ok"
     /\ Pdu_function_code(creq.response.pdu) = creq.function_code + 128)
        => cres = Failure("ExceptionResponse",
                          <<creq.function_code, Pdu_get_u8(creq.response.pdu, 0).val>>)

\* C5: user_defined compares the function codes with the exception bit 0x80
\* masked, and returns UnexpectedCode(expected, got) exactly when they differ
\* then; a received code fc | 0x80 is not reported as UnexpectedCode.
C5_UserDefinedMasksExceptionBit ==
    (/\ cpc = "idle"
     /\ creq.op = "user_defined"
     /\ creq.response.kind = "Ok")
        => (cres.err = "UnexpectedCode"
              <=> Pdu_function_code(creq.response.pdu) % 128 # creq.function_code % 128)

(***************************************************************************)
(* app/model/request.rs: the typed requests, built and read back           *)
(***************************************************************************)
\* starting_address, output_address, register_address: inner.get_u16(0)
Request_address(pdu) == Pdu_get_u16(pdu, 0)

\* quantity_of_coils, quantity_of_inputs, quantity_of_registers,
\* quantity_of_input_registers, register_value: inner.get_u16(2)
Request_value(pdu) == Pdu_get_u16(pdu, 2)

\* Request<WriteSingleCoil>::output_value: get_u16(2).map(|v| v == 0xFF00)
WriteSingleCoilRequest_output_value(pdu) ==
    LET v == Pdu_get_u16(pdu, 2)
    IN IF v.some THEN [some |-> TRUE, val |-> (v.val = 65280)] ELSE [some |-> FALSE, val |-> FALSE]

\* the u16 arguments tried: the ends of the range, the ends of the quantity
\* ranges and their neighbours, values whose two bytes differ
Words == {0, 1, 2, 107, 125, 126, 255, 256, 2000, 2001, 65280, 65535}

ReadOperations ==
    {"read_coils", "read_discrete_inputs", "read_holding_registers", "read_input_registers"}

\* the constructor calls tried
RequestCalls ==
    {<<op, a, q>> : op \in ReadOperations \cup {"write_single_register"}, a \in Words, q \in Words}
        \cup {<<"write_single_coil", a, v>> : a \in Words, v \in BOOLEAN}

\* what a constructor returned and what the accessors of its request return
NotBuilt == [ok |-> FALSE, err |-> "", pdu |-> <<>>, address |-> <<>>, value |-> <<>>]

QInit ==
    /\ cpc = "new"
    /\ creq \in RequestCalls
    /\ clog = <<>>
    /\ cres = NotBuilt
    /\ nops = 0

\* Request::new(..) of the call, then the two accessors of the request
RequestNew ==
    /\ cpc = "new"
    /\ cpc' = "built"
    /\ LET r == Request_new(creq)
       IN cres' = [ok |-> r.ok, err |-> r.err, pdu |-> r.pdu,
                   address |-> IF r.ok THEN Request_address(r.pdu) ELSE <<>>,
                   value |-> IF ~r.ok THEN <<>>
                             ELSE IF creq[1] = "write_single_coil"
                             THEN WriteSingleCoilRequest_output_value(r.pdu)
                             ELSE Request_value(r.pdu)]
    /\ UNCHANGED <<creq, clog, nops>>

InitRequest == TIdle /\ FIdle /\ QInit

NextRequest == RequestNew /\ UNCHANGED <<tvars, fvars>>

SpecRequest == InitRequest /\ [][NextRequest]_vars

\* C13: the accessors of a request built by new(address, value) return
\* exactly address and value (for WriteSingleCoil the value field is 0xFF00
\* for true and 0x0000 for false), and the PDU is exactly five bytes: the
\* function code, then the two u16 fields big-endian.
C13_RequestRoundTrip ==
    (cpc = "built" /\ cres.ok) =>
        LET field == IF creq[1] # "write_single_coil" THEN creq[3]
                     ELSE IF creq[3] THEN 65280 ELSE 0
        IN /\ cres.address = [some |-> TRUE, val |-> creq[2]]
           /\ cres.value = [some |-> TRUE, val |-> creq[3]]
           /\ cres.pdu = << PublicFunctionCode(creq[1]),
                            creq[2] \div 256, creq[2] % 256,
                            field \div 256, field % 256 >>

\* a request was built from an address and a quantity with two different bytes
C13_Witness ==
    /\ cpc = "built"
    /\ creq = <<"read_coils", 107, 2000>>
    /\ cres.pdu = <<1, 0, 107, 7, 208>>
    /\ cres.value = [some |-> TRUE, val |-> 2000]

\* C14: ReadCoils::new and ReadDiscreteInputs::new succeed exactly when the
\* quantity is in 1..=2000, ReadHoldingRegisters::new and
\* ReadInputRegisters::new exactly when it is in 1..=125, whatever the
\* address; every other quantity fails with OutOfRange and yields no PDU.
C14_QuantityRange ==
    (cpc = "built" /\ creq[1] \in ReadOperations) =>
        LET most == IF creq[1] \in {"read_coils", "read_discrete_inputs"} THEN 2000 ELSE 125
        IN IF creq[3] >= 1 /\ creq[3] <= most
           THEN cres.ok
           ELSE ~cres.ok /\ cres.err = "OutOfRange" /\ cres.pdu = <<>>

\* a quantity that coils accept was refused for holding registers
C14_Witness ==
    /\ cpc = "built"
    /\ creq = <<"read_holding_registers", 65535, 126>>
    /\ cres.err = "OutOfRange"

(***************************************************************************)
(* The two calc_crc, frame/rtu.rs and transport/rtu.rs, side by side       *)
(***************************************************************************)
\* the longest of the byte strings tried exhaustively
CrcMaxLen == 3

\* bytes the exhaustive strings are made of: the ends of the range and bytes
\* with one bit, the lowest or the highest, set
CrcBytes == {0, 1, 128, 255}

\* every string of CrcBytes up to CrcMaxLen, every single byte, the check
\* strings of CRC-16/MODBUS, and a string as long as a frame
CrcInputs ==
    UNION {[1..n -> CrcBytes] : n \in 0..CrcMaxLen}
        \cup {<<b>> : b \in 0..255}
        \cup { <<49, 50, 51, 52, 53, 54, 55, 56, 57>>, <<1, 2, 3, 4>>,
               <<255, 0, 255, 0>>, Pattern(FRAME_MAX_ADU_SIZE) }

CrcInit ==
    /\ adu \in CrcInputs
    /\ fpdu = <<>>
    /\ faddr = 0
    /\ fres = [stage |-> "new", table |-> 0, bitwise |-> 0]

\* both calc_crc on the same bytes
CalcCrc ==
    /\ fres.stage = "new"
    /\ fres' = [stage |-> "done", table |-> Frame_calc_crc(adu), bitwise |-> calc_crc(adu)]
    /\ UNCHANGED <<adu, fpdu, faddr>>

InitCrc == TIdle /\ CrcInit /\ CIdle

NextCrc == CalcCrc /\ UNCHANGED <<tvars, cvars>>

SpecCrc == InitCrc /\ [][NextCrc]_vars

\* C15: the table-driven calc_crc and the bit-by-bit calc_crc return the same
\* 16-bit value for every byte string, the CRC-16/MODBUS: 0xFFFF for the
\* empty string, 0x807E for [01], 0x4B37 for "123456789", 0x2BA1 for
\* [01,02,03,04], 0xC071 for [FF,00,FF,00].
C15_CrcsAgree ==
    fres.stage = "done" =>
        /\ fres.table = fres.bitwise
        /\ fres.table \in 0..65535
        /\ adu = <<>> => fres.table = 65535
        /\ adu = <<1>> => fres.table = 32894
        /\ adu = <<49, 50, 51, 52, 53, 54, 55, 56, 57>> => fres.table = 19255
        /\ adu = <<1, 2, 3, 4>> => fres.table = 11169
        /\ adu = <<255, 0, 255, 0>> => fres.table = 49265

\* both computed the CRC of "123456789"
C15_Witness ==
    /\ fres.stage = "done"
    /\ adu = <<49, 50, 51, 52, 53, 54, 55, 56, 57>>
    /\ fres.table = 19255
    /\ fres.bitwise = 19255

(***************************************************************************)
(* app/types.rs and app/model/response.rs: the read responses and their    *)
(* iterators.                                                              *)
(***************************************************************************)
\* the width of usize in bits: the pointer width of the target
USIZE_BITS == 16

\* what a call that can panic came to: Some(val), None, or a panic
Some(val) == [outcome |-> "Some", val |-> val]

None == [outcome |-> "None", val |-> <<>>]

Panic == [outcome |-> "panic", val |-> <<>>]

\* BitSet::new
BitSet_new(bytes) == [bytes |-> bytes, byte_index |-> 0, bit_index |-> 0]

\* a pick that starts from the most significant bit
BitSet_bit_from_msb(byte, bit_index) == (byte \div 2^(7 - bit_index)) % 2 # 0

\* BitSet::next, the pick: (byte >> bit_index) & 0x01 != 0
BitSet_bit(byte, bit_index) == (byte \div 2^bit_index) % 2 # 0

\* BitSet::next: the item and the iterator after the call
BitSet_next(it) ==
    IF it.byte_index >= Len(it.bytes)
    THEN [item |-> None, it |-> it]
    ELSE LET bit == BitSet_bit(it.bytes[it.byte_index + 1], it.bit_index)
             bit_index == it.bit_index + 1
         IN [item |-> Some(bit),
             it |-> IF bit_index >= 8
                    THEN [it EXCEPT !.byte_index = @ + 1, !.bit_index = 0]
                    ELSE [it EXCEPT !.bit_index = bit_index]]

\* RegisterSlice::new
RegisterSlice_new(bytes) == [bytes |-> bytes, index |-> 0]

\* RegisterSlice::next: bytes[index + 1] is indexed unchecked, and panics
\* when index is the last position of the slice
RegisterSlice_next(it) ==
    IF it.index >= Len(it.bytes)
    THEN [item |-> None, it |-> it]
    ELSE IF it.index + 1 >= Len(it.bytes)
    THEN [item |-> Panic, it |-> it]
    ELSE [item |-> Some(FromBeBytes(it.bytes[it.index + 1], it.bytes[it.index + 2])),
          it |-> [it EXCEPT !.index = @ + 2]]

\* Response<F>::new(data) of the four read responses: the function code,
\* data.len() as u8, the data; debug_assert!(data.len() <= 250) panics in a
\* build with debug assertions
ReadResponse_new(function_code, data, debug_assertions) ==
    IF debug_assertions /\ Len(data) > 250
    THEN [ok |-> FALSE, err |-> "panic", pdu |-> <<>>]
    ELSE LET p0 == Pdu_new(function_code)
             p1 == Pdu_put_u8(p0.pdu, Len(data) % 256)
             p2 == Pdu_extend_from_slice(p1.pdu, data)
         IN IF ~p0.ok THEN p0 ELSE IF ~p1.ok THEN p1 ELSE p2

\* Response<F>::byte_count: inner.get_u8(0)
Response_byte_count(inner) ==
    LET b == Pdu_get_u8(inner, 0)
    IN IF b.some THEN Some(b.val) ELSE None

\* the slice coil_status, input_status, register_value and input_registers
\* hand to their iterator: byte_count()?.checked_add(1)?, then
\* &inner.data()[1..byte_count], which panics when the end is past the data
Response_slice(inner) ==
    LET b == Response_byte_count(inner)
    IN IF b.outcome = "None" THEN None
       ELSE IF b.val + 1 > 255 THEN None
       ELSE IF b.val + 1 > Len(Pdu_data(inner)) THEN Panic
       ELSE Some(Slice(Pdu_data(inner), 1, b.val + 1))

\* coil_status and input_status
Response_coil_status(inner) ==
    LET s == Response_slice(inner)
    IN IF s.outcome = "Some" THEN Some(BitSet_new(s.val)) ELSE s

\* register_value and input_registers
Response_register_value(inner) ==
    LET s == Response_slice(inner)
    IN IF s.outcome = "Some" THEN Some(RegisterSlice_new(s.val)) ELSE s

\* register(index): start = 1 + index * 2 in usize arithmetic, which panics
\* on overflow in a build with overflow checks and wraps in one without
Response_register(inner, index, overflow_checks) ==
    LET b == Response_byte_count(inner)
        doubled == index * 2
        start == 1 + (doubled % 2^USIZE_BITS)
    IN IF b.outcome = "None" THEN None
       ELSE IF overflow_checks /\ (doubled >= 2^USIZE_BITS \/ start >= 2^USIZE_BITS)
       THEN Panic
       ELSE IF (start % 2^USIZE_BITS) < b.val
       THEN LET v == Pdu_get_u16(inner, start % 2^USIZE_BITS)
            IN IF v.some THEN Some(v.val) ELSE None
       ELSE None

\* accessor calls made on one response
MaxCalls == 2

\* status bytes and register bytes handed to Response::new: none, the bytes of
\* the tests, bytes with the lowest and the highest bit set, an odd number of
\* bytes, the most the PDU holds (251) and one more
ResponseData ==
    { <<>>, <<18>>, <<18, 52>>, <<17, 34>>, <<1, 128, 255>>, <<18, 52, 86, 120>>,
      <<0, 1, 255, 254, 128, 0>>, Pattern(251), Pattern(252) }

\* PDUs received from the line and wrapped by From<Pdu>: no byte count, a
\* byte count of 0, a byte count that announces more than the PDU holds (by
\* one byte, by many), one that announces less, an odd number of register
\* bytes, a byte count of 255, and well-formed ones
ReceivedPdus ==
    { <<3>>, <<3, 0>>, <<3, 2, 18>>, <<1, 200, 18, 52>>, <<3, 2, 18, 52, 86>>,
      <<3, 3, 1, 2, 3>>, <<3, 1, 7>>, <<131, 2>>, <<1, 255>> \o Pattern(251),
      <<1, 2, 18, 52>>, <<3, 4, 18, 52, 86, 120>> }

\* the responses tried: which Response<F> it is, whether it is built by new
\* or wrapped from a received PDU, and the bytes given
Responses ==
    [function : ReadOperations, origin : {"new"}, given : ResponseData, inner : {<<>>}]
        \cup [function : ReadOperations, origin : {"from"}, given : ReceivedPdus, inner : {<<>>}]

\* register indices tried: the first ones, the index whose double is
\* 2^USIZE_BITS, and usize::MAX
Indices == {0, 1, 2, 3, 2^(USIZE_BITS - 1), 2^USIZE_BITS - 1}

BitOperations == {"read_coils", "read_discrete_inputs"}

RegisterOperations == {"read_holding_registers", "read_input_registers"}

\* the last accessor call: its name, its index argument, what it returned,
\* the iterator it returned as it is now, whether that iterator can still be
\* advanced, whether it has returned None, and whether an iterator made by
\* an earlier call had been advanced when this call was made
Called(call, index, result, it, live, stale) ==
    [call |-> call, index |-> index, result |-> result, it |-> it,
     live |-> live, ended |-> FALSE, stale |-> stale]

NoCall == Called("", 0, None, <<>>, FALSE, FALSE)

RInit ==
    /\ cpc = "new"
    /\ creq \in Responses
    /\ clog = <<>>
    /\ cres = NoCall
    /\ nops = 0

\* Response::new(data), or Response::from(pdu) of a PDU the transport built
\* with Pdu::try_from
ResponseWrap ==
    /\ cpc = "new"
    /\ \E debug_assertions \in BOOLEAN :
          LET r == IF creq.origin = "new"
                   THEN ReadResponse_new(PublicFunctionCode(creq.function), creq.given,
                                         debug_assertions)
                   ELSE Pdu_try_from(creq.given)
          IN /\ cpc' = IF r.ok THEN "response" ELSE IF r.err = "panic" THEN "panicked" ELSE "failed"
             /\ creq' = [creq EXCEPT !.inner = r.pdu]
    /\ UNCHANGED <<clog, cres, nops>>

\* an accessor returned `result`; `it` is the iterator it made, if `live`
Return(call, index, result, it, live) ==
    /\ cpc' = IF result.outcome = "panic" THEN "panicked" ELSE cpc
    /\ cres' = Called(call, index, result, it, live, clog # <<>>)
    /\ clog' = <<>>
    /\ nops' = nops + 1
    /\ UNCHANGED creq

\* rsp.byte_count()
ByteCount ==
    /\ cpc = "response"
    /\ nops < MaxCalls
    /\ Return("byte_count", 0, Response_byte_count(creq.inner), <<>>, FALSE)

\* rsp.coil_status() or rsp.input_status()
CoilStatus ==
    /\ cpc = "response"
    /\ nops < MaxCalls
    /\ creq.function \in BitOperations
    /\ LET r == Response_coil_status(creq.inner)
       IN Return("coil_status", 0, [outcome |-> r.outcome, val |-> <<>>], r.val, r.outcome = "Some")

\* rsp.register_value() or rsp.input_registers()
RegisterValue ==
    /\ cpc = "response"
    /\ nops < MaxCalls
    /\ creq.function \in RegisterOperations
    /\ LET r == Response_register_value(creq.inner)
       IN Return("register_value", 0, [outcome |-> r.outcome, val |-> <<>>], r.val, r.outcome = "Some")

\* rsp.register(index)
Register(index) ==
    /\ cpc = "response"
    /\ nops < MaxCalls
    /\ creq.function \in RegisterOperations
    /\ \E overflow_checks \in BOOLEAN :
          Return("register", index, Response_register(creq.inner, index, overflow_checks), <<>>, FALSE)

\* next() of the iterator the last call returned; clog collects the items
IteratorNext ==
    /\ cpc = "response"
    /\ cres.live
    /\ LET n == IF cres.call = "coil_status" THEN BitSet_next(cres.it)
                ELSE RegisterSlice_next(cres.it)
       IN /\ cpc' = IF n.item.outcome = "panic" THEN "panicked" ELSE cpc
          /\ cres' = [cres EXCEPT !.it = n.it,
                                  !.live = (n.item.outcome = "Some"),
                                  !.ended = (n.item.outcome = "None"),
                                  !.result = IF n.item.outcome = "panic" THEN Panic ELSE @]
          /\ clog' = IF n.item.outcome = "Some" THEN Append(clog, n.item.val) ELSE clog
    /\ UNCHANGED <<creq, nops>>

InitResponse == TIdle /\ FIdle /\ RInit

NextResponse ==
    \/ ResponseWrap /\ UNCHANGED <<tvars, fvars>>
    \/ ByteCount /\ UNCHANGED <<tvars, fvars>>
    \/ CoilStatus /\ UNCHANGED <<tvars, fvars>>
    \/ RegisterValue /\ UNCHANGED <<tvars, fvars>>
    \/ \E index \in Indices : Register(index) /\ UNCHANGED <<tvars, fvars>>
    \/ IteratorNext /\ UNCHANGED <<tvars, fvars>>

SpecResponse == InitResponse /\ [][NextResponse]_vars

\* C16: the bit iterator of a ReadCoils / ReadDiscreteInputs response built
\* from n status bytes yields exactly 8*n booleans and then ends; the k-th
\* value (k from 0) is bit (k mod 8) of status byte (k div 8), bit 0 the
\* least significant; every call of coil_status() / input_status() returns a
\* fresh iterator that starts again at bit 0 of the first byte.
C16_BitsLsbFirst ==
    (creq.origin = "new" /\ creq.function \in BitOperations /\ cres.call = "coil_status") =>
        /\ cres.result.outcome = "Some"
        /\ Len(clog) <= 8 * Len(creq.given)
        /\ \A k \in 0..(Len(clog) - 1) :
              clog[k + 1] = ((creq.given[(k \div 8) + 1] \div 2^(k % 8)) % 2 = 1)
        /\ cres.ended => Len(clog) = 8 * Len(creq.given)
        /\ ~cres.ended => cres.live

\* a second call of coil_status, made after the first iterator had been
\* advanced, iterated to its end over the status bytes 0x12 0x34
C16_Witness ==
    /\ creq.origin = "new"
    /\ creq.given = <<18, 52>>
    /\ cres.call = "coil_status"
    /\ nops = 2
    /\ cres.stale
    /\ cres.ended
    /\ clog = << FALSE, TRUE, FALSE, FALSE, TRUE, FALSE, FALSE, FALSE,
                 FALSE, FALSE, TRUE, FALSE, TRUE, TRUE, FALSE, FALSE >>

\* the response holds a byte count of 2n followed by exactly 2n bytes
WellFormedRegisters ==
    /\ cpc \in {"response", "panicked"}
    /\ creq.function \in RegisterOperations
    /\ Len(creq.inner) >= 2
    /\ creq.inner[2] % 2 = 0
    /\ Len(creq.inner) = 2 + creq.inner[2]

\* the i-th register (i from 0) of the register bytes of the response
RegisterAt(i) == 256 * creq.inner[3 + 2 * i] + creq.inner[4 + 2 * i]

\* C17: for a ReadHoldingRegisters / ReadInputRegisters response whose
\* byte_count is 2n and is followed by 2n bytes, the register iterator yields
\* exactly n values, the i-th the big-endian u16 of register bytes 2i and
\* 2i+1, then ends; register(i) returns that same i-th value for every i < n
\* and absent for every i >= n.
C17_RegistersBigEndian ==
    WellFormedRegisters =>
        LET n == creq.inner[2] \div 2
        IN /\ cres.call = "register_value" =>
                /\ cres.result.outcome = "Some"
                /\ Len(clog) <= n
                /\ \A i \in 0..(Len(clog) - 1) : clog[i + 1] = RegisterAt(i)
                /\ cres.ended => Len(clog) = n
                /\ ~cres.ended => cres.live
           /\ cres.call = "register" =>
                cres.result = IF cres.index < n THEN Some(RegisterAt(cres.index)) ELSE None

\* C18: for every PDU of 1..=253 bytes wrapped as a read response,
\* byte_count(), coil_status() / input_status(), register_value() /
\* input_registers(), register(i) for every i, and a full iteration of the
\* returned iterators complete without panicking: when byte_count announces
\* more bytes than the PDU holds the accessor returns absent, and when the
\* register bytes have odd length the iterator ends without surfacing the
\* half register.
C18_ReadResponseNeverPanics ==
    (creq.origin = "from" /\ cpc \in {"response", "panicked"}) =>
        /\ cpc # "panicked"
        /\ cres.result.outcome # "panic"
        /\ (/\ cres.call \in {"coil_status", "register_value"}
            /\ Len(creq.inner) >= 2
            /\ creq.inner[2] > Len(creq.inner) - 2) => cres.result = None
        /\ (cres.call = "register_value" /\ cres.ended) =>
                Len(clog) = Len(cres.it.bytes) \div 2

(***************************************************************************)
(* The two PDU buffers under their mutating operations: common::Pdu, a     *)
(* heapless Vec<u8, 253>, and frame::pdu::Pdu, a DataUnit<253> reached     *)
(* through Deref and DerefMut.                                             *)
(***************************************************************************)
\* common::Pdu::put_u16_le: push(low)?; push(high)
Pdu_put_u16_le(pdu, value) ==
    LET r1 == Pdu_push(pdu, LowByte(value))
    IN IF ~r1.ok THEN r1 ELSE Pdu_push(r1.pdu, HighByte(value))

\* common::Pdu::len
Pdu_len(pdu) == Len(pdu)

\* DataUnit::put_u16: push(high)?; push(low)
DataUnit_put_u16(u, src) ==
    LET r1 == DataUnit_push(u, HighByte(src))
    IN IF ~r1.ok THEN r1 ELSE DataUnit_push(r1.unit, LowByte(src))

\* DataUnit::advance: position = (position + count).min(N); the sum is usize
\* arithmetic, which panics on overflow in a build with overflow checks and
\* wraps in one without
DataUnit_advance(u, count, overflow_checks) ==
    LET sum == u.position + count
        least == IF sum % 2^USIZE_BITS < Len(u.data) THEN sum % 2^USIZE_BITS ELSE Len(u.data)
    IN IF overflow_checks /\ sum >= 2^USIZE_BITS
       THEN [ok |-> FALSE, err |-> "panic", unit |-> u]
       ELSE [ok |-> TRUE, err |-> "", unit |-> [u EXCEPT !.position = least]]

\* a write through DataUnit::as_slice_mut, which lends the whole array:
\* as_slice_mut()[index] = value
DataUnit_as_slice_mut_write(u, index, value) ==
    IF index >= Len(u.data)
    THEN [ok |-> FALSE, err |-> "panic", unit |-> u]
    ELSE [ok |-> TRUE, err |-> "", unit |-> [u EXCEPT !.data[index + 1] = value]]

\* DataUnit::get(index): self.data.get(index)
DataUnit_get(u, index) ==
    IF index < Len(u.data) THEN [some |-> TRUE, val |-> u.data[index + 1]]
    ELSE [some |-> FALSE, val |-> 0]

\* frame::pdu::Pdu::function_code: get_u8(0)
FramePdu_function_code(u) == DataUnit_get(u, 0)

\* operations applied to one PDU after its construction
MaxPduOps == 3

\* the function codes PDUs are constructed with
PduCodes == {3, 131}

\* the slices appended: short, and around what is left of the 253 bytes
\* after the function code (252): 250, 252, 253, and 254 bytes
PduSlices == { <<1, 2>>, Pattern(250), Pattern(252), Pattern(253), Pattern(254) }

\* the mutating operations of both PDU types
Appends ==
    { [name |-> "put_u8", value |-> 7, src |-> <<>>],
      [name |-> "put_u16", value |-> 4660, src |-> <<>>],
      [name |-> "put_u16_le", value |-> 4660, src |-> <<>>] }
        \cup [name : {"extend_from_slice"}, value : {0}, src : PduSlices]

\* what frame::pdu::Pdu exposes in addition, through DerefMut to DataUnit:
\* put_slice, clear, advance(count), as_slice_mut()[index] = value
FrameOnly ==
    [name : {"put_slice"}, value : {0}, src : PduSlices]
        \cup { [name |-> "clear", value |-> 0, src |-> <<>>],
               [name |-> "advance", value |-> 1, src |-> <<>>],
               [name |-> "advance", value |-> 300, src |-> <<>>],
               [name |-> "advance", value |-> 2^USIZE_BITS - 1, src |-> <<>>],
               [name |-> "as_slice_mut", value |-> 0, src |-> <<153>>],
               [name |-> "as_slice_mut", value |-> 1, src |-> <<153>>] }

\* pdu.<op>(..) on a common::Pdu: [ok, err, pdu]
Pdu_apply(pdu, op) ==
    CASE op.name = "put_u8" -> Pdu_put_u8(pdu, op.value)
      [] op.name = "put_u16" -> Pdu_put_u16(pdu, op.value)
      [] op.name = "put_u16_le" -> Pdu_put_u16_le(pdu, op.value)
      [] op.name = "extend_from_slice" -> Pdu_extend_from_slice(pdu, op.src)

\* pdu.<op>(..) on a frame::pdu::Pdu: [ok, err, pdu]
FramePdu_apply(u, op, overflow_checks) ==
    LET r == CASE op.name = "put_u8" -> DataUnit_put_u8(u, op.value)
               [] op.name = "put_u16" -> DataUnit_put_u16(u, op.value)
               [] op.name = "put_u16_le" -> DataUnit_put_u16_le(u, op.value)
               [] op.name = "extend_from_slice" -> DataUnit_extend_from_slice(u, op.src)
               [] op.name = "put_slice" -> DataUnit_put_slice(u, op.src)
               [] op.name = "clear" -> [ok |-> TRUE, err |-> "", unit |-> DataUnit_clear(u)]
               [] op.name = "advance" -> DataUnit_advance(u, op.value, overflow_checks)
               [] op.name = "as_slice_mut" -> DataUnit_as_slice_mut_write(u, op.value, op.src[1])
    IN [ok |-> r.ok, err |-> r.err, pdu |-> r.unit]

\* the bytes an operation tries to append
Added(op) ==
    CASE op.name \in {"put_u16", "put_u16_le"} -> 2
      [] op.name = "put_u8" -> 1
      [] op.name \in {"extend_from_slice", "put_slice"} -> Len(op.src)
      [] OTHER -> 0

\* len() and function_code() of the PDU in fpdu
PduLength == IF fres.kind = "common" THEN Pdu_len(fpdu) ELSE DataUnit_len(fpdu)

PduFunctionCode ==
    IF fres.kind = "common" THEN [some |-> TRUE, val |-> Pdu_function_code(fpdu)]
    ELSE FramePdu_function_code(fpdu)

\* the last operation: its name, whether it returned Ok, its error, the
\* length before it and the bytes it tried to append; count is the number of
\* operations so far
NoPduOp(kind) ==
    [kind |-> kind, stage |-> "new", op |-> "", ok |-> TRUE, err |-> "",
     before |-> 0, added |-> 0, count |-> 0]

PInit ==
    /\ adu = <<>>
    /\ fpdu = <<>>
    /\ faddr \in PduCodes
    /\ fres \in {NoPduOp("common"), NoPduOp("frame")}

\* Pdu::new(function_code) of either type
PduNew ==
    /\ fres.stage = "new"
    /\ LET r == IF fres.kind = "common" THEN Pdu_new(faddr)
                ELSE [ok |-> FramePdu_new(faddr).ok, pdu |-> FramePdu_new(faddr).unit]
       IN /\ fpdu' = r.pdu
          /\ fres' = [fres EXCEPT !.stage = IF r.ok THEN "built" ELSE "failed", !.op = "new"]
    /\ UNCHANGED <<adu, faddr>>

\* one mutating operation
PduOp(op) ==
    /\ fres.stage = "built"
    /\ fres.count < MaxPduOps
    /\ fres.kind = "common" => op \in Appends
    /\ \E overflow_checks \in BOOLEAN :
          LET r == IF fres.kind = "common" THEN Pdu_apply(fpdu, op)
                   ELSE FramePdu_apply(fpdu, op, overflow_checks)
          IN /\ fpdu' = r.pdu
             /\ fres' = [fres EXCEPT !.stage = IF r.err = "panic" THEN "panicked" ELSE @,
                                     !.op = op.name, !.ok = r.ok, !.err = r.err,
                                     !.before = PduLength, !.added = Added(op),
                                     !.count = @ + 1]
    /\ UNCHANGED <<adu, faddr>>

InitPdu == TIdle /\ PInit /\ CIdle

NextPdu ==
    \/ PduNew /\ UNCHANGED <<tvars, cvars>>
    \/ \E op \in Appends \cup FrameOnly : PduOp(op) /\ UNCHANGED <<tvars, cvars>>

SpecPdu == InitPdu /\ [][NextPdu]_vars

\* C19: after construction with a function code and any sequence of the
\* PDU's mutating operations (put_u8, put_u16, put_u16_le, extend_from_slice
\* / put_slice, and whatever else the type exposes mutably), whether they
\* succeed or fail, the PDU length stays within 1..=253 and function_code()
\* still returns the code given at construction.
C19_LengthAndCodeKept ==
    fres.stage \in {"built", "panicked"} =>
        /\ PduLength >= 1
        /\ PduLength <= 253
        /\ PduFunctionCode = [some |-> TRUE, val |-> faddr]

\* the operations that append
AppendNames == {"put_u8", "put_u16", "put_u16_le", "extend_from_slice", "put_slice"}

\* C20 as stated: put_u8, put_u16, put_u16_le and extend_from_slice /
\* put_slice on a PDU succeed exactly when the resulting length is at most
\* 253 bytes, and every append that would exceed 253 bytes fails with
\* NoSpaceLeft.
C20_AppendFailsWithNoSpaceLeft ==
    (fres.stage = "built" /\ fres.op \in AppendNames) =>
        /\ fres.ok <=> fres.before + fres.added <= 253
        /\ fres.ok => PduLength = fres.before + fres.added
        /\ ~fres.ok => fres.err = "NoSpaceLeft"

\* C20, amended: the appends succeed exactly when the resulting length is at
\* most 253 bytes; an append that would exceed 253 bytes fails with
\* NoSpaceLeft when what it appends is itself at most 253 bytes, and with
\* BufferOverflow when it is a slice of more than 253 bytes.
C20_AppendFitsOrFails ==
    (fres.stage = "built" /\ fres.op \in AppendNames) =>
        /\ fres.ok <=> fres.before + fres.added <= 253
        /\ fres.ok => PduLength = fres.before + fres.added
        /\ ~fres.ok => fres.err = IF fres.added > 253 THEN "BufferOverflow" ELSE "NoSpaceLeft"

\* a slice of 253 bytes was refused with NoSpaceLeft by a common::Pdu that
\* held its function code and nothing else
C20_Witness ==
    /\ fres.kind = "common"
    /\ fres.stage = "built"
    /\ fres.op = "extend_from_slice"
    /\ fres.before = 1
    /\ fres.added = 253
    /\ ~fres.ok
    /\ fres.err = "NoSpaceLeft"
    /\ fpdu = <<faddr>>

(***************************************************************************)
(* Reads of the two PDU buffers: get_u8, get_u16, get_u16_le after writes. *)
(***************************************************************************)
\* common::Pdu::get(index) with index + 1 in usize arithmetic, which panics
\* on overflow in a build with overflow checks and wraps in one without
Pdu_get_usize(pdu, index, overflow_checks) ==
    IF index + 1 >= 2^USIZE_BITS
    THEN IF overflow_checks THEN Panic
         ELSE IF Len(pdu) > 0 THEN Some(pdu[((index + 1) % 2^USIZE_BITS) + 1]) ELSE None
    ELSE LET b == Pdu_get(pdu, index)
         IN IF b.some THEN Some(b.val) ELSE None

\* common::Pdu::get_u16(h_idx): get(h_idx)?, get(h_idx + 1)?, from_be_bytes([high, low])
Pdu_get_u16_usize(pdu, h_idx, overflow_checks) ==
    LET high == Pdu_get_usize(pdu, h_idx, overflow_checks)
        low == Pdu_get_usize(pdu, (h_idx + 1) % 2^USIZE_BITS, overflow_checks)
    IN IF high.outcome # "Some" THEN high
       ELSE IF overflow_checks /\ h_idx + 1 >= 2^USIZE_BITS THEN Panic
       ELSE IF low.outcome # "Some" THEN low
       ELSE Some(FromBeBytes(high.val, low.val))

\* common::Pdu::get_u16_le(l_idx): low = get(l_idx)?, high = get(l_idx + 1)?,
\* from_le_bytes([high, low])
Pdu_get_u16_le(pdu, l_idx, overflow_checks) ==
    LET low == Pdu_get_usize(pdu, l_idx, overflow_checks)
        high == Pdu_get_usize(pdu, (l_idx + 1) % 2^USIZE_BITS, overflow_checks)
    IN IF low.outcome # "Some" THEN low
       ELSE IF overflow_checks /\ l_idx + 1 >= 2^USIZE_BITS THEN Panic
       ELSE IF high.outcome # "Some" THEN high
       ELSE Some(FromLeBytes(high.val, low.val))

\* DataUnit::get_u8(index): get(index).copied()
DataUnit_get_u8(u, index) ==
    LET b == DataUnit_get(u, index)
    IN IF b.some THEN Some(b.val) ELSE None

\* DataUnit::get_u16(index): get(index)?, get(index + 1)?, from_be_bytes([high, low])
DataUnit_get_u16(u, index) ==
    LET high == DataUnit_get(u, index)
        low == DataUnit_get(u, index + 1)
    IN IF high.some /\ low.some THEN Some(FromBeBytes(high.val, low.val)) ELSE None

\* DataUnit::get_u16_le(index): from_le_bytes([low, high])
DataUnit_get_u16_le(u, index) ==
    LET low == DataUnit_get(u, index)
        high == DataUnit_get(u, index + 1)
    IN IF low.some /\ high.some THEN Some(FromLeBytes(low.val, high.val)) ELSE None

\* writes made before the read
MaxWrites == 2

\* the u16 values written: the ends of the range, values whose two bytes
\* differ, and one whose two bytes are equal
AccessValues == {0, 255, 256, 4660, 43981, 65535, 4369}

\* the writes tried with the value v; clear is of the DataUnit alone
AccessWrites(v) ==
    { [name |-> "put_u8", value |-> 7, src |-> <<>>],
      [name |-> "put_u16", value |-> v, src |-> <<>>],
      [name |-> "put_u16_le", value |-> v, src |-> <<>>],
      [name |-> "extend_from_slice", value |-> 0, src |-> <<1, 2, 3>>],
      [name |-> "clear", value |-> 0, src |-> <<>>] }

\* the indexes read: the first ones, the last of the storage and the one
\* past it, and usize::MAX
AccessIndices == {0, 1, 2, 3, 4, 5, 6, 252, 253, 2^USIZE_BITS - 1}

Getters == {"get_u8", "get_u16", "get_u16_le"}

\* pdu.<getter>(index) on a common::Pdu
Pdu_read(pdu, getter, index, overflow_checks) ==
    CASE getter = "get_u8" -> Pdu_get_usize(pdu, index, overflow_checks)
      [] getter = "get_u16" -> Pdu_get_u16_usize(pdu, index, overflow_checks)
      [] getter = "get_u16_le" -> Pdu_get_u16_le(pdu, index, overflow_checks)

\* unit.<getter>(index) on a DataUnit
DataUnit_read(u, getter, index) ==
    CASE getter = "get_u8" -> DataUnit_get_u8(u, index)
      [] getter = "get_u16" -> DataUnit_get_u16(u, index)
      [] getter = "get_u16_le" -> DataUnit_get_u16_le(u, index)

\* the state of one buffer: its kind, the value its put_u16 and put_u16_le
\* write, the last write, whether it returned Ok, the length before it, and
\* the number of writes
NoWrite(kind, v) ==
    [kind |-> kind, stage |-> "new", value |-> v, op |-> "", ok |-> TRUE, at |-> 0, count |-> 0]

AInit ==
    /\ adu = <<>>
    /\ fpdu = <<>>
    /\ faddr = 3
    /\ fres \in {NoWrite(kind, v) : kind \in {"common", "frame"}, v \in AccessValues}

\* Pdu::new(function_code) of either type
AccessNew ==
    /\ fres.stage = "new"
    /\ fpdu' = IF fres.kind = "common" THEN Pdu_new(faddr).pdu ELSE FramePdu_new(faddr).unit
    /\ fres' = [fres EXCEPT !.stage = "built", !.op = "new"]
    /\ UNCHANGED <<adu, faddr>>

\* one write
AccessWrite(op) ==
    /\ fres.stage = "built"
    /\ fres.count < MaxWrites
    /\ fres.kind = "common" => op.name # "clear"
    /\ LET r == IF fres.kind = "common" THEN Pdu_apply(fpdu, op)
                ELSE FramePdu_apply(fpdu, op, FALSE)
       IN /\ fpdu' = r.pdu
          /\ fres' = [fres EXCEPT !.op = op.name, !.ok = r.ok, !.at = PduLength,
                                  !.count = @ + 1]
    /\ UNCHANGED <<adu, faddr>>

\* one read; adu holds the getter, the index and what it returned
AccessRead(getter, index) ==
    /\ fres.stage = "built"
    /\ \E overflow_checks \in BOOLEAN :
          LET r == IF fres.kind = "common" THEN Pdu_read(fpdu, getter, index, overflow_checks)
                   ELSE DataUnit_read(fpdu, getter, index)
          IN /\ adu' = [getter |-> getter, index |-> index, result |-> r]
             /\ fres' = [fres EXCEPT !.stage = IF r.outcome = "panic" THEN "panicked" ELSE "read"]
    /\ UNCHANGED <<fpdu, faddr>>

InitAccess == TIdle /\ AInit /\ CIdle

NextAccess ==
    \/ AccessNew /\ UNCHANGED <<tvars, cvars>>
    \/ \E op \in AccessWrites(fres.value) : AccessWrite(op) /\ UNCHANGED <<tvars, cvars>>
    \/ \E g \in Getters, i \in AccessIndices : AccessRead(g, i) /\ UNCHANGED <<tvars, cvars>>

SpecAccess == InitAccess /\ [][NextAccess]_vars

\* the payload index a read addressed: common::Pdu counts from the byte
\* after the function code, DataUnit from the start of its storage
PayloadIndex == IF fres.kind = "common" THEN adu.index ELSE adu.index - 1

\* C21: reads are bounded by the bytes actually written: get_u8(i) returns
\* a value exactly when payload index i is below the current payload length
\* (len() - 1), and get_u16 / get_u16_le(i) exactly when i+1 is below it;
\* for every other index they return absent, including indexes that fall on
\* bytes left in storage by earlier contents or after clear().
C21_ReadsBoundedByLength ==
    (fres.stage \in {"read", "panicked"} /\ PayloadIndex >= 0) =>
        LET last == IF adu.getter = "get_u8" THEN PayloadIndex ELSE PayloadIndex + 1
        IN adu.result.outcome = IF last < PduLength - 1 THEN "Some" ELSE "None"

\* C22: for every u16 value v, reading with get_u16 at the position where
\* put_u16(v) wrote returns v, and reading with get_u16_le at the position
\* where put_u16_le(v) wrote returns v; this holds for the Pdu of common.rs
\* as for the DataUnit of frame.rs.
C22_PutGetRoundTrip ==
    (/\ fres.stage = "read"
     /\ fres.ok
     /\ \/ fres.op = "put_u16" /\ adu.getter = "get_u16"
        \/ fres.op = "put_u16_le" /\ adu.getter = "get_u16_le"
     /\ adu.index = IF fres.kind = "common" THEN fres.at - 1 ELSE fres.at) =>
        adu.result = Some(fres.value)

\* C30: a PDU append that fails for lack of space leaves the PDU exactly as
\* it was before the call: after a failing put_u16, put_u16_le or
\* extend_from_slice the length and every byte are unchanged (put_u16 on a
\* PDU of length 252 does not leave the high byte appended).
C30_FailedAppendLeavesPdu ==
    [][(/\ fres.stage = "built"
        /\ fres'.count = fres.count + 1
        /\ fres'.op \in AppendNames
        /\ ~fres'.ok) => fpdu' = fpdu]_vars

(***************************************************************************)
(* transport/rtu.rs: SerialTransportBuilder and set_slave_addr, by their   *)
(* return values.                                                          *)
(***************************************************************************)
\* baud rates given to the builder: the slowest, common ones, the two around
\* the 19200 threshold, and fast ones
ConfigBauds == {1, 300, 9600, 19200, 19201, 115200}

\* arguments of set_slave_addr: broadcast, the ends of 1..=247, one inside,
\* the ends of the reserved range
ConfigAddrs == {0, 1, 17, 247, 248, 255}

Parities == {"Even", "Odd", "None"}

\* the settings of `inner: SerialPortBuilder` the builder touches
SerialPortBuilder(baud_rate, timeout, parity, stop_bits) ==
    [baud_rate |-> baud_rate, timeout |-> timeout, parity |-> parity, stop_bits |-> stop_bits]

\* the last call of the builder or of the transport: its name, its
\* argument, what it returned, and the slave address before it; inner is
\* the port builder
Configured(inner, call, arg, result, before) ==
    [inner |-> inner, call |-> call, arg |-> arg, result |-> result, before |-> before]

\* what set_slave_addr(slave_addr) returns
set_slave_addr_result(slave_addr) ==
    IF slave_addr >= 1 /\ slave_addr <= 247
    THEN [kind |-> "Ok", err |-> "", detail |-> <<>>]
    ELSE [kind |-> "Err", err |-> "InvalidSlaveAddress", detail |-> <<slave_addr>>]

\* SerialTransportBuilder::new(path, baud_rate)
BInit ==
    /\ \E b \in ConfigBauds :
          /\ ctx = set_interval(RtuContext_default(0), b)
          /\ fres = Configured(SerialPortBuilder(b, ctx.t3_5, "Even", "One"), "new", b,
                               [kind |-> "Ok", err |-> "", detail |-> <<>>], 0)
    /\ buffer = <<>>
    /\ t3_5_timer = 0
    /\ rpc = "builder"
    /\ rres = NoReturn
    /\ now = 0
    /\ rx = <<>>
    /\ tx = <<>>
    /\ lastRx = -1
    /\ heard = <<>>
    /\ adu = <<>>
    /\ fpdu = <<>>
    /\ faddr = 0

\* SerialTransportBuilder::set_baud_rate
Builder_set_baud_rate(baud_rate) ==
    /\ rpc = "builder"
    /\ ctx' = set_interval(ctx, baud_rate)
    /\ fres' = [fres EXCEPT !.inner.baud_rate = baud_rate, !.inner.timeout = ctx'.t3_5,
                            !.call = "set_baud_rate", !.arg = baud_rate]
    /\ UNCHANGED <<buffer, t3_5_timer, rpc, rres, now, rx, tx, lastRx, heard, adu, fpdu, faddr>>

\* SerialTransportBuilder::set_parity
Builder_set_parity(parity) ==
    /\ rpc = "builder"
    /\ fres' = [fres EXCEPT !.inner.parity = parity,
                            !.inner.stop_bits = IF parity = "None" THEN "Two" ELSE "One",
                            !.call = "set_parity", !.arg = parity]
    /\ UNCHANGED <<tvars, adu, fpdu, faddr>>

\* SerialTransportBuilder::build, the port opening
Builder_build ==
    /\ rpc = "builder"
    /\ rpc' = "idle"
    /\ buffer' = Adu_new
    /\ fres' = [fres EXCEPT !.call = "build", !.arg = 0]
    /\ UNCHANGED <<ctx, t3_5_timer, rres, now, rx, tx, lastRx, heard, adu, fpdu, faddr>>

\* SerialTransport::set_slave_addr with what it returns
Transport_set_slave_addr(slave_addr) ==
    /\ set_slave_addr(slave_addr)
    /\ fres' = [fres EXCEPT !.call = "set_slave_addr", !.arg = slave_addr,
                            !.result = set_slave_addr_result(slave_addr),
                            !.before = ctx.slave_addr]
    /\ UNCHANGED <<adu, fpdu, faddr>>

InitConfig == BInit /\ CIdle

NextConfig ==
    \/ \E b \in ConfigBauds : Builder_set_baud_rate(b) /\ UNCHANGED cvars
    \/ \E p \in Parities : Builder_set_parity(p) /\ UNCHANGED cvars
    \/ Builder_build /\ UNCHANGED cvars
    \/ \E a \in ConfigAddrs : Transport_set_slave_addr(a) /\ UNCHANGED cvars

SpecConfig == InitConfig /\ [][NextConfig]_vars

\* C23: set_slave_addr(a) accepts a = 0 and every a in 1..=247, and rejects
\* every a in 248..=255 with InvalidSlaveAddress(a) leaving the configured
\* address unchanged; the configured slave address is within 0..=247 in
\* every reachable state.
C23_SlaveAddressRange ==
    /\ ctx.slave_addr \in 0..247
    /\ fres.call = "set_slave_addr" =>
          IF fres.arg <= 247
          THEN fres.result.kind = "Ok" /\ ctx.slave_addr = fres.arg
          ELSE /\ fres.result.err = "InvalidSlaveAddress"
               /\ fres.result.detail = <<fres.arg>>
               /\ ctx.slave_addr = fres.before

\* the baud rate the builder was given last
BaudGiven ==
    fres.inner.baud_rate

\* C24: for every baud rate b > 0 the context holds t1_5 = 1.5 x 11 / b
\* seconds and t3_5 = 3.5 x 11 / b seconds when b <= 19200, and t1_5 = 750
\* microseconds, t3_5 = 1750 microseconds when b > 19200; after any sequence
\* of builder calls the two values and the port timeout are those of the
\* baud rate supplied last, and t1_5 < t3_5.  Durations are compared to the
\* tick of the model.
C24_IntervalsOfLastBaud ==
    rpc \in {"builder", "idle"} =>
        /\ BaudGiven <= 19200 =>
              /\ ctx.t1_5 * 10 * BaudGiven <= 15 * 11 * TicksPerSecond
              /\ (ctx.t1_5 + 1) * 10 * BaudGiven > 15 * 11 * TicksPerSecond
              /\ ctx.t3_5 * 10 * BaudGiven <= 35 * 11 * TicksPerSecond
              /\ (ctx.t3_5 + 1) * 10 * BaudGiven > 35 * 11 * TicksPerSecond
        /\ BaudGiven > 19200 =>
              /\ ctx.t1_5 * 1000000 = 750 * TicksPerSecond
              /\ ctx.t3_5 * 1000000 = 1750 * TicksPerSecond
        /\ fres.call = "set_baud_rate" => BaudGiven = fres.arg
        /\ fres.inner.timeout = ctx.t3_5
        /\ ctx.t1_5 < ctx.t3_5

\* a builder made for 9600 baud was given 115200 baud and then a parity,
\* and holds the fixed intervals
C24_Witness ==
    /\ rpc = "builder"
    /\ fres.call = "set_parity"
    /\ BaudGiven = 115200
    /\ ctx.t1_5 * 1000000 = 750 * TicksPerSecond
    /\ fres.inner.timeout * 1000000 = 1750 * TicksPerSecond

(***************************************************************************)
(* transport/rtu.rs: recv followed for as long as it runs.  Only the       *)
(* differences of Instants are read by recv, so time passes here by moving *)
(* the origin: `now` stays, latest_time and the deadline of the timer move *)
(* back.                                                                   *)
(***************************************************************************)
\* a frame for slave 34 whose PDU is a whole frame of slave 17
Nested == PeerFrame(34, PeerFrame(17, <<3, 2, 18, 52>>))

\* frames on the line that are addressed to another slave than 17
ForeignOnLine == { Nested, PeerFrame(34, <<3, 2, 18, 52>>) }

\* what the line delivers, as the chunks successive reads return: the nested
\* frame in three reads (its address, its PDU, its CRC); a frame of slave 34
\* and then, in a later read, a frame of slave 17; three bytes, the address
\* 17 and the CRC of that byte; 256 bytes that start with 17 and are no
\* frame; a damaged frame of slave 17
LiveStreams ==
    { << <<34>>, PeerFrame(17, <<3, 2, 18, 52>>), SubSeq(Nested, Len(Nested) - 1, Len(Nested)) >>,
      << PeerFrame(34, <<3, 2, 18, 52>>), PeerFrame(17, <<131, 2>>) >>,
      << PeerFrame(17, <<>>) >>,
      << <<17>> \o Pattern(255) >>,
      << Damaged(PeerFrame(17, <<6, 0, 1, 0, 3>>)) >> }

\* the state SerialTransportBuilder::new(path, 9600).build() leaves
LInit ==
    /\ ctx = set_interval(RtuContext_default(0), 9600)
    /\ buffer = Adu_new
    /\ t3_5_timer = 0
    /\ rpc = "idle"
    /\ rres = NoReturn
    /\ now = 0
    /\ rx \in LiveStreams
    /\ tx = <<>>
    /\ lastRx = -1
    /\ heard = <<>>

\* time d passes while recv waits in select! with the timer armed by a read
Elapse(d) ==
    /\ rpc = "select"
    /\ t3_5_timer - now <= ctx.t3_5
    /\ now < t3_5_timer
    /\ ctx' = [ctx EXCEPT !.latest_time = @ - d]
    /\ t3_5_timer' = t3_5_timer - d
    /\ UNCHANGED <<buffer, rpc, rres, now, rx, tx, lastRx, heard>>

\* time passes
Elapses == \E d \in Delays : Elapse(d) /\ UNCHANGED <<fvars, cvars>>

\* the timer branch of select!
TimerFires == RecvTimer /\ UNCHANGED <<fvars, cvars>>

InitLive == LInit /\ FIdle /\ CIdle

NextLive ==
    \/ set_slave_addr(17) /\ UNCHANGED <<fvars, cvars>>
    \/ RecvStart /\ UNCHANGED <<fvars, cvars>>
    \/ \E bytes \in NextChunks(rx) : RecvRead(bytes) /\ UNCHANGED <<fvars, cvars>>
    \/ RecvReadErr("TimedOut") /\ UNCHANGED <<fvars, cvars>>
    \/ TimerFires
    \/ Elapses

\* time passes, and the timer branch is taken once its deadline is reached
\* the enabling condition of TimerFires: the sleep of select! has completed
TimerDue == rpc = "select" /\ now >= t3_5_timer

\* time does not stop, and select! takes the timer branch once the sleep has
\* completed and no read completes any more (weak fairness of TimerFires,
\* written out with its enabling condition)
SpecLive ==
    /\ InitLive
    /\ [][NextLive]_vars
    /\ WF_vars(Elapses)
    /\ ([]<>(~TimerDue) \/ []<><<TimerFires>>_vars)

\* the bytes `part` lie inside `frame`, past its address byte
LiesInside(part, frame) ==
    \E i \in 2..Len(frame) :
        /\ i + Len(part) - 1 <= Len(frame)
        /\ SubSeq(frame, i, i + Len(part) - 1) = part

\* C25: with a nonzero configured slave address a, recv never returns a PDU
\* taken from a frame whose address byte differs from a, whether the parse
\* is triggered by arriving bytes or by the timer and however the foreign
\* frame is split into read chunks: a later chunk of a foreign frame that
\* begins with byte a is not treated as the start of a frame for this slave.
C25_ForeignFrameNeverReturned ==
    (rpc = "idle" /\ rres.res.kind = "Ok" /\ ctx.slave_addr # 0) =>
        \A f \in ForeignOnLine : ~LiesInside(Adu_as_slice(buffer), f)

\* C26: when bytes whose first byte differs from the configured slave
\* address arrive during recv, they are dropped silently and the same recv
\* call keeps waiting: the call does not end with Timeout or any error
\* because of the dropped frame, and a later CRC-valid frame addressed to
\* this slave, arriving after more than t3_5 of silence, is returned by that
\* same call.
C26_DroppedFrameKeepsWaiting ==
    (/\ rpc = "idle"
     /\ rres # NoReturn
     /\ ctx.slave_addr # 0
     /\ heard # <<>>
     /\ heard[1] # ctx.slave_addr) => rres.res.kind = "Ok"

\* C27: recv returns a PDU only for an accumulated frame of 4..=256 bytes: a
\* buffer of 3 bytes (an address byte followed by the CRC of that single
\* byte, with no function code) is never returned as a PDU, on the
\* bytes-available path or on the timer path.
C27_NoPduFromThreeBytes ==
    (rpc = "idle" /\ rres.res.kind = "Ok") =>
        (Adu_len(buffer) >= 4 /\ Adu_len(buffer) <= 256)

\* C28: once at least one byte has been received in a recv call and the line
\* then stays silent, recv eventually returns (a PDU or an error) when the
\* t3_5 idle gap has elapsed, also when 256 bytes have been accumulated or
\* when the port read completes with zero bytes: the loop never keeps
\* re-arming the t3_5 timer without receiving data.
C28_RecvReturnsAfterSilence ==
    (rpc = "select" /\ heard # <<>> /\ rx = <<>>) ~> (rpc = "idle")

\* what a transport without history returns for the frame in the buffer
FreshPdu(adu0) ==
    Adu_pdu(Adu_set_position(Adu_read_into(Adu_new, Adu_as_slice(adu0)), Adu_len(adu0)))

\* C29: the result of a recv call depends only on the bytes received during
\* that call: a transport with a history (a previous send, a previous recv)
\* returns the same PDU as one without for the same bytes, and no byte left
\* in the shared buffer by an earlier send or recv appears in the returned
\* PDU.
C29_RecvIndependentOfHistory ==
    (rpc = "idle" /\ rres.res.kind = "Ok") => rres.res.pdu = FreshPdu(buffer).pdu

====
